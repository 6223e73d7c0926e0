------------------------------ MODULE MCTextWalk ------------------------------
(* Code points on both sides of each length, two that look like surrogates,   *)
(* the byte order mark and one that is above the last.                         *)
EXTENDS TextWalk

MCAlphabet ==
    "record" :> {"x", "\\", "=", "&", "|", "\n"} @@ "list" :> {"x", "\\", ":", ",", ";"} @@
    "line" :> {"x", " ", "|", "\n"} @@ "gbk" :> {"x", " ", "|", "hi"} @@
    "utf8" :> {"1", "2", "3", "4", "5", "c"} @@
    "bytes" :> {0, 155, 255} @@ "url" :> {"x", " ", "*", "~", "/"} @@
    "points" :> {0, 127, 128, 2047, 2048, 55296, 56320, 65279, 65535, 65536, 128512, 1114111, 1114112}

\* The characters AnsiToURLEncode writes as one.
MCPlain == "url" :> {"x", " ", "*"}

MCPlainKinds == {"url"}

MCPlainLen == [k \in MCPlainKinds |-> 5]

MCKinds == DOMAIN MCAlphabet

MCMaxLen == [k \in MCKinds |-> CASE k = "bytes" -> 7 [] k = "points" -> 3 [] OTHER -> 5]
===============================================================================
