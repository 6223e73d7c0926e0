------------------------------ MODULE StringFunc ------------------------------
(***************************************************************************)
(* The string functions of CommonTools/StringFunc.cc, over sequences of    *)
(* characters.  Positions count from 1; npos is the code's "not found".    *)
(***************************************************************************)
EXTENDS Integers, SequencesExt

npos == -1

\* Where sub begins in s at or after position from, or npos.
find(s, sub, from) ==
    LET at == {i \in from .. Len(s) - Len(sub) + 1 : IsPrefix(sub, SubSeq(s, i, Len(s)))}
    IN IF at = {} THEN npos ELSE Min(at)

rfind(s, sub) ==
    LET at == {i \in 1 .. Len(s) - Len(sub) + 1 : IsPrefix(sub, SubSeq(s, i, Len(s)))}
    IN IF at = {} THEN npos ELSE Max(at)

find_char(s, c, from) == find(s, <<c>>, from)

StartsWith(s, sub) == find(s, sub, 1) = 1

\* rfind counts from 0: npos is the largest size_t, length() - length() wraps.
EndsWith(s, sub) ==
    LET found == rfind(s, sub)
    IN (IF found = npos THEN -1 ELSE found - 1) = Len(s) - Len(sub)

Lstrip(s, c) == LET kept == {i \in DOMAIN s : s[i] # c}
                IN IF kept = {} THEN << >> ELSE SubSeq(s, Min(kept), Len(s))
Rstrip(s, c) == LET kept == {i \in DOMAIN s : s[i] # c}
                IN IF kept = {} THEN << >> ELSE SubSeq(s, 1, Max(kept))
Strip(s, c) == Rstrip(Lstrip(s, c), c)

\* A text of one quote is both ends of itself and becomes empty.
StripQuote(s) ==
    IF StartsWith(s, <<"\"">>) /\ EndsWith(s, <<"\"">>) THEN SubSeq(s, 2, Len(s) - 1) ELSE s

\* A bug: every empty piece is left out, not just the last.
SplitDropsEmpty(s, separator) ==
    LET Read(items, c) == IF c = separator THEN Append(items, << >>)
                          ELSE Append(Front(items), Append(Last(items), c))
    IN SelectSeq(FoldLeft(Read, << << >> >>, s), LAMBDA item : item # << >>)

\* The pieces between separators, without the last one when it is empty.
Split(s, separator) ==
    LET Read(items, c) == IF c = separator THEN Append(items, << >>)
                          ELSE Append(Front(items), Append(Last(items), c))
        items == FoldLeft(Read, << << >> >>, s)
    IN IF Last(items) = << >> THEN Front(items) ELSE items

\* As Split, each piece stripped; a last piece of blanks is left out too.
SplitWithStrip(s, separator) ==
    LET items == [i \in DOMAIN Split(s, separator) |-> Strip(Split(s, separator)[i], " ")]
    IN IF items # << >> /\ Last(items) = << >> /\ Last(s) # separator THEN Front(items) ELSE items

JoinWithDelim(srcs, delim) ==
    FlattenSeq([i \in DOMAIN srcs |-> IF i = Len(srcs) THEN srcs[i] ELSE Append(srcs[i], delim)])

FoldSpace(s) ==
    LET Read(out, c) == IF c = " " /\ out # << >> /\ Last(out) = " " THEN out ELSE Append(out, c)
    IN Strip(FoldLeft(Read, << >>, s), " ")

Right(s, length) == IF Len(s) <= length THEN s ELSE SubSeq(s, Len(s) - length + 1, Len(s))
Left(s, length)  == IF Len(s) <= length THEN s ELSE SubSeq(s, 1, length)
CutFront(s, length) == Right(s, length)

RemoveChar(s, c) == SelectSeq(s, LAMBDA x : x # c)
ReplaceChar(s, src, dst) == [i \in DOMAIN s |-> IF s[i] = src THEN dst ELSE s[i]]
Escape(s, op) == FlattenSeq([i \in DOMAIN s |-> IF s[i] = op THEN <<"\\", op>> ELSE <<s[i]>>])

\* The loop of ReplaceStr after at most rounds replacements; it goes on from the
\* place behind the first character of what it has just written.
ReplaceRounds(s, before, after, rounds) ==
    LET Round(st, k) ==
            LET it == find(st.s, before, st.index)
            IN IF it = npos THEN [st EXCEPT !.done = TRUE]
               ELSE [st EXCEPT !.s = SubSeq(@, 1, it - 1) \o after \o SubSeq(@, it + Len(before), Len(@)),
                               !.index = it + 1]
    IN FoldLeft(Round, [s |-> s, index |-> 1, done |-> FALSE], [k \in 1 .. rounds |-> k])

\* The result and whether the loop ends within one round per character and one
\* to find nothing: with each round its index moves on.
ReplaceStr(s, before, after) ==
    IF s = << >> THEN [s |-> s, index |-> 1, done |-> TRUE]
    ELSE ReplaceRounds(s, before, after, Len(s) + 1)

\* Every text between a delim1 and the delim2 after it.
ParseIncludedStr(s, delim1, delim2) ==
    LET end == Len(s) + 1
        items[index \in 1 .. end + 1] ==
            LET front == find_char(s, delim1, index)
                back  == find_char(s, delim2, front)
            IN IF front = npos THEN << >>
               ELSE IF back = npos THEN << SubSeq(s, front + 1, Len(s)) >>
               ELSE << SubSeq(s, front + 1, back - 1) >> \o items[back + 1]
    IN items[1]

ParseIncludedStrByMark(s, delim1, delim2, mark) ==
    LET at    == find(s, mark, 1)
        front == find_char(s, delim1, at)
        back  == find_char(s, delim2, front)
    IN IF at = npos \/ front = npos THEN << >>
       ELSE SubSeq(s, front + 1, IF back = npos THEN Len(s) ELSE back - 1)

ParseIncludedOneItem(s, lKey, rKey) ==
    LET lhs  == find(s, lKey, 1)
        from == lhs + Len(lKey)
        rhs  == find(s, rKey, from)
    IN IF lhs = npos \/ rhs = npos THEN << >> ELSE SubSeq(s, from, rhs - 1)

\* The map from the first value of each key; a text without delim1 is no pair.
ParseToPairs(s, delim1, delim2) ==
    LET pairs[index \in 1 .. Len(s) + 2] ==
            LET index1 == find_char(s, delim1, index)
                index2 == find_char(s, delim2, index1 + 1)
                key    == SubSeq(s, index, index1 - 1)
            IN IF index1 = npos THEN << >>
               ELSE IF index2 = npos THEN key :> SubSeq(s, index1 + 1, Len(s))
               ELSE (key :> SubSeq(s, index1 + 1, index2 - 1)) @@ pairs[index2 + 1]
    IN pairs[1]

\* The n-th field is replaced; firstPos stays at -1 and nextPos at the last
\* character when there is no such delimiter.
ReplaceByDelim(s, delim, n, rpDst) ==
    LET delims   == SetToSortSeq({i \in DOMAIN s : s[i] = delim}, <)
        firstPos == IF n - 1 \in DOMAIN delims THEN delims[n - 1] ELSE 0
        nextPos  == IF n \in DOMAIN delims THEN delims[n] ELSE Len(s)
    IN SubSeq(s, 1, firstPos) \o rpDst
         \o SubSeq(s, IF nextPos > firstPos THEN nextPos ELSE Len(s) + 1, Len(s))
===============================================================================
