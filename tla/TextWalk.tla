------------------------------- MODULE TextWalk -------------------------------
(***************************************************************************)
(* A text of one of several kinds grows character by character; at every   *)
(* length the text functions are run on it, with buffers of every size,    *)
(* and compared with one another and with what they are for.               *)
(***************************************************************************)
EXTENDS CharBuffer

CONSTANTS Kinds,       \* the kinds of text
          Alphabet,    \* Alphabet[k]: the characters a text of kind k is made of
          MaxLen,      \* MaxLen[k]: how long it gets
          Sizes        \* the sizes of the buffers

ASSUME KindsAssumption == MaxLen \in [Kinds -> Nat] /\ DOMAIN Alphabet = Kinds
ASSUME SizesAssumption == Sizes \subseteq Nat \ {0}

F == INSTANCE StringFunc
T == INSTANCE TextTools

VARIABLES kind, text

vars == <<kind, text>>

Init == kind \in Kinds /\ text = << >>

Append1(c) == text' = Append(text, c) /\ UNCHANGED kind

Next == Len(text) < MaxLen[kind] /\ \E c \in Alphabet[kind] : Append1(c)

Spec == Init /\ [][Next]_vars

\* A buffer every text, escaped, encoded or not, fits in.
Ample == 8 * Len(text) + 8

Has(c) == c \in Range(text)
-------------------------------------------------------------------------------
\* In a buffer that is too small an escape writes what it makes of the start of the
\* text, up to the first character whose escape does not fit: the cut is between
\* two characters, never inside an escape, and no character is lost before it.
CutsBetween(Escape(_, _)) ==
    \A size \in Sizes : \E k \in 0 .. Len(text) :
        /\ Escape(text, size) = Escape(Cut(text, k), Ample)
        /\ k < Len(text) => Len(Escape(Cut(text, k + 1), Ample)) >= size

\* The text without the backslashes that stand directly before a separator.
WithoutMarks(s, separators) ==
    LET Marks(i) == s[i] = "\\" /\ i < Len(s) /\ s[i + 1] \in separators
        kept == SelectSeq([i \in DOMAIN s |-> i], LAMBDA i : ~Marks(i))
    IN [k \in DOMAIN kept |-> s[kept[k]]]

\* The items of a list, with TranslateData's backslash before each of the three
\* separators: every separator has one, and the text without them is the old one.
ListsInvert ==
    LET out == TranslateData(text, Ample)
    IN /\ WithoutMarks(out, {":", ",", ";"}) = text
       /\ \A i \in DOMAIN out : out[i] \in {":", ",", ";"} => i > 1 /\ out[i - 1] = "\\"
       /\ CutsBetween(TranslateData)

\* An escaped value reads back as it was, Get_zhuanyi_string undoing
\* to_zhuangyi_string and the two replacements of "&1;" and "&2;" ChangeStingBy,
\* which leaves no "|".
EscapesInvert ==
    LET changed == ChangeStingBy(text, Ample)
    IN /\ Get_zhuanyi_string(to_zhuangyi_string(text, Ample), Ample) = text
       /\ ~Contains(changed, "|")
       /\ F!ReplaceStr(F!ReplaceStr(changed, <<"&", "1", ";">>, <<"|">>).s,
                       <<"&", "2", ";">>, <<"&">>).s = text
       /\ CutsBetween(to_zhuangyi_string)
       /\ CutsBetween(ChangeStingBy)

\* name1=value1<sep>name2=value2 with escaped values.
Record(v1, v2, sep) ==
    <<"k", "=">> \o to_zhuangyi_string(v1, Ample) \o <<sep, "m", "=">> \o to_zhuangyi_string(v2, Ample)

\* What a small buffer may show of a value: its start, with a backslash behind
\* it when the cut went through an escape.
StartOf(got, value) ==
    \/ IsPrefix(got, value)
    \/ got # << >> /\ Last(got) = "\\" /\ IsPrefix(Front(got), value)

\* GetPara finds each value of a record of escaped values and nothing else,
\* with separator "&" always and with the default "|", which no escape covers,
\* when no value contains it.  The parsers of StringFunc see the same record.
\* All three escapes are undone, and cut between two characters by a small buffer.
RecordsRead ==
    /\ kind = "list" => ListsInvert
    /\ kind = "record" => EscapesInvert /\
        \A i \in 0 .. Len(text), sep \in {"&"} \cup IF Has("|") THEN {} ELSE {"|"} :
            LET v1  == SubSeq(text, 1, i)
                v2  == SubSeq(text, i + 1, Len(text))
                rec == Record(v1, v2, sep)
            IN /\ GetPara(rec, Ample, <<"k">>, sep, "=") = v1
               /\ GetPara(rec, Ample, <<"m">>, sep, "=") = v2
               /\ GetPara(rec, Ample, <<"x">>, sep, "=") = << >>
               /\ \A size \in Sizes : StartOf(GetPara(rec, size, <<"m">>, sep, "="), v2)
               /\ LET raw1 == to_zhuangyi_string(v1, Ample)
                      raw2 == to_zhuangyi_string(v2, Ample)
                  IN /\ F!ParseToPairs(rec, "=", sep) = <<"k">> :> raw1 @@ <<"m">> :> raw2
                     /\ F!ParseIncludedStr(rec, "=", sep) = <<raw1, raw2>>
                     /\ F!ParseIncludedStrByMark(rec, "=", sep, <<"m">>) = raw2
                     /\ F!ParseIncludedOneItem(rec, <<"k", "=">>, <<sep>>) = raw1

\* The ways to take a line apart agree: Split and JoinWithDelim are inverse but
\* for one separator at the end, GetValue counts the fields of the first line,
\* trimming one field or the whole line is the same where there is but one, and
\* ReadColumn, column by column, reads what SplitWithStrip returns.
FieldsAgree ==
        LET fields == F!Split(text, "|")
            line   == F!Split(Before(text, "\n"), "|")
            column[n \in 1 .. Len(fields) + 1] ==
                IF n = 1 THEN ReadColumn(text, "|", Ample)
                ELSE ReadColumn(column[n - 1].rest, "|", Ample)
        IN /\ F!JoinWithDelim(fields, "|") =
                 IF text # << >> /\ Last(text) = "|" THEN Front(text) ELSE text
           /\ \A n \in 1 .. Len(text) + 1 :
                 GetValue_KeepBlank(text, Ample, n, "|") = IF n <= Len(line) THEN line[n] ELSE << >>
           /\ \A n \in DOMAIN fields : GetValue_KeepReturn(text, Ample, n, "|") = fields[n]
           /\ \A n \in 1 .. Len(text) + 1 :
                 Trim(GetValue(text, Ample, n, "|"), {" "}) = GetValue(text, Ample, n, "|")
           /\ \A n \in DOMAIN F!SplitWithStrip(text, "|") :
                 F!SplitWithStrip(text, "|")[n] = column[n].column
           /\ ~Has("|") => TrimSpaceAndLine(text) = GetValue(text, Ample, 1, "|")
           /\ Len(F!SplitWithStrip(text, "|")) < Len(fields) => column[Len(fields)].column = << >>

\* The searches do what their names say, but for what the code gets wrong:
\*  - EndsWith also holds of every sub one longer than the text;
\*  - ReplaceStr does not end when before is empty or comes back in after behind
\*    its first character, and with an empty after leaves an occurrence that
\*    starts where it has just removed one;
\*  - ReplaceByDelim keeps the last character of the text when the n-th
\*    delimiter is missing.
Subs == {<<"x">>, <<"|">>, <<"x", "|">>, <<"|", "|">>}

EndsAgree ==
    \A sub \in Subs :
        /\ F!EndsWith(text, sub) <=> IsSuffix(sub, text) \/ Len(sub) = Len(text) + 1
        /\ F!StartsWith(text, sub) <=> IsPrefix(sub, text)

Occurs(sub, s) == F!find(s, sub, 1) # F!npos

ReplaceAgrees ==
    \A before \in Subs \cup {<< >>}, after \in Subs \cup {<< >>, <<"+">>} :
        LET r == F!ReplaceStr(text, before, after)
            endless == before = << >> \/ F!find(after, before, 2) # F!npos
        IN /\ text # << >> /\ Occurs(before, text) => (r.done <=> ~endless)
           /\ ~Occurs(before, text) => r.s = text
           /\ after = <<"+">> /\ before # << >> =>
                 /\ ~Occurs(before, r.s)
                 /\ F!ReplaceStr(r.s, after, before).s = text
           /\ before = <<"x">> /\ after = << >> /\ ~Occurs(<<"x", "x">>, text) =>
                 r.s = F!RemoveChar(text, "x")

FieldReplaced ==
    \A n \in 1 .. Len(text) :
        LET fields == Fields(text, "|")
            r      == F!ReplaceByDelim(text, "|", n, <<"+">>)
        IN n < Len(fields) => r = F!JoinWithDelim([fields EXCEPT ![n] = <<"+">>], "|")

\* What both libraries offer they do alike.
CutsAgree ==
    /\ F!RemoveChar(text, " ") = TrimChar(text, " ")
    /\ \A n \in 0 .. Len(text) + 1 :
          /\ F!Left(text, n) = my_strncpy(text, n + 1, "none")
          /\ F!Right(text, n) = strcpyr(text, n)
          /\ F!Left(text, n) \o F!CutFront(text, Len(text) - n) = text \/ n > Len(text)
    /\ F!FoldSpace(text) = F!JoinWithDelim(
           SelectSeq(F!Split(text, " "), LAMBDA item : item # << >>), " ")
    /\ F!StripQuote(<<"\"">> \o text \o <<"\"">>) = text /\ F!StripQuote(text) = text
    /\ F!ReplaceChar(text, "|", "+") = F!ReplaceStr(text, <<"|">>, <<"+">>).s
    /\ F!Escape(text, "|") = F!ReplaceStr(F!ReplaceChar(text, "|", "+"), <<"+">>, <<"\\", "|">>).s

\* The splitters elsewhere find the same pieces: test_string_ref.cc's Split is
\* StringFunc's, its string_ref forms leave out what is empty, those of
\* Feature_17.hpp what stands behind the last separator; ReadLinesFromFile
\* reads the lines the string_ref forms find.
SplitsAgree ==
    \A c \in {"|", " ", "\n"} :
        LET items == F!Split(text, c)
            ended == text # << >> /\ Last(text) = c
        IN /\ T!Split(text, c) = items
           /\ T!SplitV(text, c) = IF items = << >> \/ ended THEN items ELSE Front(items)
           /\ T!Split_17(text, c) = T!SplitVW(text, c)
           /\ T!Split_View(text, c) = T!Split_Ref(text, c)
           /\ F!JoinWithDelim(T!Split_Ref(text, " "), " ") = F!FoldSpace(text)
           /\ T!Split_Ref(text, "\n") = T!ReadLinesFromFile(text)

\* Lines are taken apart, searched and cut alike by both libraries and by the
\* helpers elsewhere, and what they are put together from again is the line.
LinesAgree ==
    kind = "line" =>
        FieldsAgree /\ EndsAgree /\ ReplaceAgrees /\ FieldReplaced /\ CutsAgree /\ SplitsAgree

\* What a code point's bytes are to CheckTextType and get_utf8_words.
ByteKind(b) ==
    CASE b < 128 -> "1" [] b < 192 -> "c" [] b < 224 -> "2" [] b < 240 -> "3" [] OTHER -> "4"

\* Cutting or filtering a text never takes a character apart: StrncpyGBK keeps
\* whole double-byte characters, DeleteCtrlCharFromGBK does not take the second
\* byte of one for a control character, and get_utf8_words stops between two
\* words of a text that CheckTextType takes for UTF-8, unless it has a word of
\* five or six bytes, which only CheckTextType knows.  Of a text that is not
\* UTF-8 up to three bytes from behind its end may be copied.  What to_utf_8
\* writes is UTF-8 to both, and is cut between two code points.
CharactersStayWhole ==
    /\ kind = "gbk" =>
          LET chars == GbkChars(text)
              whole == {FlattenSeq(SubSeq(chars, 1, k)) : k \in 0 .. Len(chars)}
          IN /\ \A size \in Sizes :
                   LET cut == StrncpyGBK(text, size)
                   IN cut \in whole /\ Len(cut) < size
             /\ \A c \in {"|", " "} :
                   GbkChars(DeleteCtrlCharFromGBK(text, c)) =
                       SelectSeq(chars, LAMBDA x : x # <<c>>)
    /\ kind = "utf8" =>
          \A size \in Sizes :
              LET len == get_utf8_words(text, size)
              IN /\ len < size
                 /\ IsUtf8(text) => len <= Len(text)
                 /\ IsUtf8(text) /\ ~Has("5") => IsUtf8(Cut(text, len))
                 /\ len > Len(text) => ~IsUtf8(text) /\ len <= Len(text) + 3
    /\ kind = "points" =>
          LET words == [k \in DOMAIN text |->
                          [i \in DOMAIN T!to_utf_8(text[k]) |-> ByteKind(T!to_utf_8(text[k])[i])]]
              bytes == FlattenSeq(words)
          IN /\ IsUtf8(bytes)
             /\ \A size \in Sizes :
                   Cut(bytes, get_utf8_words(bytes, size)) = Written(words, size - 1)

\* The code point behind the k-th two-byte unit, a pair of surrogates taken as one.
IsPair(units, k) ==
    k < Len(units) /\ units[k] \in 55296 .. 56319 /\ units[k + 1] \in 56320 .. 57343
FromUtf16(units) ==
    LET point[k \in 1 .. Len(units) + 2] ==
            IF k > Len(units) THEN << >>
            ELSE IF IsPair(units, k)
            THEN <<65536 + (units[k] - 55296) * 1024 + units[k + 1] - 56320>> \o point[k + 2]
            ELSE <<units[k]>> \o point[k + 1]
    IN point[1]

\* The code points of bytes that are UTF-8.
FromUtf8(bytes) ==
    LET Lead(b)     == CASE b < 128 -> b [] b < 224 -> b - 192 [] b < 240 -> b - 224 [] OTHER -> b - 240
        Read(ps, b) == IF b \in 128 .. 191 THEN Append(Front(ps), Last(ps) * 64 + b - 128)
                       ELSE Append(ps, Lead(b))
    IN FoldLeft(Read, << >>, bytes)

\* Both encoders can be read back, but for a code point above the last one,
\* which throws, and, in UTF-16, two code points that look like a pair.  The
\* UTF-8 of U+FEFF is the mark that isHaveBOM looks for, and of no other.
CodePointsInvert ==
    kind = "points" =>
        LET valid == SelectSeq(text, LAMBDA ch : ch <= T!unicode_max)
            utf8  == FlattenSeq([k \in DOMAIN text |-> T!to_utf_8(text[k])])
            utf16 == FlattenSeq([k \in DOMAIN text |-> T!to_utf_16(text[k])])
        IN /\ FromUtf8(utf8) = valid
           /\ (\A k \in DOMAIN valid : ~IsPair(valid, k)) => FromUtf16(utf16) = valid
           /\ isHaveBOM(utf8) <=> valid # << >> /\ Head(valid) = 65279

\* GetCheckCode tells apart any two texts that differ in one byte, but neither
\* the order of its words nor a 0 behind a text of odd length.
CheckCodeDetects ==
    kind = "bytes" =>
        LET code == T!GetCheckCode(text)
        IN /\ code \in 0 .. 65535
           /\ \A i \in DOMAIN text : \A b \in Alphabet["bytes"] \ {text[i]} :
                 T!GetCheckCode([text EXCEPT ![i] = b]) # code
           /\ Len(text) % 2 = 1 => T!GetCheckCode(Append(text, 0)) = code
           /\ Len(text) >= 4 =>
                 T!GetCheckCode(<<text[3], text[4], text[1], text[2]>> \o SubSeq(text, 5, Len(text))) = code

\* Base64Decode undoes Base64Encode_WithAdd; a decode buffer that is too small
\* gets the start of the bytes.  An encode buffer that is too small gets the
\* start of the encoding, but for the one size at which padding is put behind
\* letters that were left out.
Base64Inverts ==
    kind = "bytes" =>
        LET full == Base64Encode_WithAdd(text, Ample)
        IN /\ Len(full) = 4 * ((Len(text) + 2) \div 3)
           /\ text # << >> => Base64Decode(full, Ample) = text
           /\ \A size \in Sizes :
                 /\ text # << >> => IsPrefix(Base64Decode(full, size), text)
                 /\ Len(Base64Encode_WithAdd(text, size)) < size
                 /\ \/ IsPrefix(Base64Encode_WithAdd(text, size), full)
                    \/ Len(text) % 3 # 0 /\ size % 4 = 1 /\ size <= Len(full) + 1

\* What AnsiToURLEncode does: the encoded URL fits into the buffer, and so does its 0
\* unless the last place went to a plain character (the code then writes one
\* place behind the buffer, see UrlEndsInside); a text that is not cut comes out
\* as from the other encoder, but for "*" and "~".
UrlsFit ==
    kind = "url" =>
        \A size \in Sizes :
            LET ansi == AnsiToURLEncode(text, size)
            IN /\ Len(ansi.out) <= size
               /\ Len(ansi.out) = size => Last(ansi.out) \notin {"~", "/"}
               /\ ~ansi.full /\ Len(ansi.out) < size /\ ~Has("*") /\ ~Has("~") =>
                     ansi.out = UrlEncode(text)

\* What is encoded can be read back, in Base64, UTF-8 and UTF-16; encoded URLs
\* fit their buffer; a check code changes with the text, each but for the cases
\* named above.
EncodingsInvert == Base64Inverts /\ UrlsFit /\ CodePointsInvert /\ CheckCodeDetects

\* The bytes of the characters of a URL.
Bytes(s) ==
    LET byte == "x" :> 120 @@ " " :> 32 @@ "*" :> 42 @@ "~" :> 126 @@ "/" :> 47
    IN [i \in DOMAIN s |-> byte[s[i]]]

\* Base64Filter takes wrong characters out (STD.h:308: "过滤掉错误字符"): an encoded
\* text with one put in anywhere, such as the line end of a mail, comes back as
\* it was.
FilterRemovesWrong ==
    LET full == Base64Encode_WithAdd(Bytes(text), Ample)
    IN \A i \in 1 .. Len(full) + 1 : Base64Filter(InsertAt(full, i, Wrong)) = full

\* The size of AnsiToURLEncode's buffer includes the 0 ("结果缓冲区的大小(包括最后的\0)",
\* STD.h:295), and a result other than 0 is the length of the encoding: in a
\* buffer of any size the encoding is whole, its 0 inside, or the call fails.
UrlEndsInside ==
    \A size \in Sizes :
        LET ansi == AnsiToURLEncode(text, size)
        IN \/ ansi.full
           \/ ansi = AnsiToURLEncode(text, Ample) /\ Len(ansi.out) < size

\* What STD.h says of the two.  The code does neither for a text of one plain
\* character.
EncodersAsDocumented ==
    kind = "url" /\ text # << >> => FilterRemovesWrong /\ UrlEndsInside
===============================================================================
