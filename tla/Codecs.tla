------------------------------- MODULE Codecs --------------------------------
(* The encodings of the repository, each with its decoder: Base64          *)
(* (crypto_utils.c), HTML and URL escapes (web_security.c), varints,      *)
(* wire fields and HTTP/2 frames (grpc_sim.c), WebSocket frames           *)
(* (websocket.c) and JSON (json_helper.c).  Bytes are numbers, characters  *)
(* the few that the code tells apart, a payload whose bytes are only       *)
(* copied its length.                                                      *)
EXTENDS Integers, Sequences, SequencesExt, FiniteSetsExt

CONSTANTS Samples,    \* byte values
          Chars, MaxText, Rooms,
          Width,      \* of the signed integers, 32 and 64 in the code
          Integers32, Fields, Lengths, MaxFrameSize, Masks,
          JsonKeys, JsonTexts, MaxString, MaxNesting

VARIABLE input        \* what is encoded

Strings(S, n) == UNION {[1..k -> S] : k \in 0..n}
Prefix(s, n) == SubSeq(s, 1, Min({n, Len(s)}))

-----------------------------------------------------------------------------
(* crypto_utils.c: a digit of the alphabet is its index, the padding -2. *)

Pad == -2
Byte(s, i) == IF i <= Len(s) THEN s[i] ELSE 0
Base64Encode(s) ==
    LET digits(i) == LET t == 65536 * Byte(s, i) + 256 * Byte(s, i + 1) + Byte(s, i + 2) IN
                     <<t \div 262144, (t \div 4096) % 64, (t \div 64) % 64, t % 64>>
        all == FlattenSeq([g \in 1..((Len(s) + 2) \div 3) |-> digits(3 * g - 2)])
        pads == (3 - (Len(s) % 3)) % 3
    IN  [i \in DOMAIN all |-> IF i > Len(all) - pads THEN Pad ELSE all[i]]
\* A missing digit is read as -1, all ones: it fills the whole group.
Group(v) ==
    IF Len(v) < 4 THEN <<255, 255, 255>>
    ELSE <<4 * v[1] + v[2] \div 16, 16 * (v[2] % 16) + v[3] \div 4, 64 * (v[3] % 4) + v[4]>>
Base64Decode(text, room) ==
    LET isDigit(d) == d # Pad
        digits == SelectSeq(text, isDigit)
        groups == FlattenSeq([g \in 1..((Len(digits) + 3) \div 4) |->
                      Group(SubSeq(digits, 4 * g - 3, Min({4 * g, Len(digits)})))])
        written == Prefix(groups, room)
    IN  Prefix(written, Len(written) - (Len(text) - Len(digits)))

-----------------------------------------------------------------------------
(* web_security.c: an entity is an ampersand and its name, a percent code  *)
(* a percent sign and its two hexadecimal digits; "amp;" and "25" may also *)
(* stand in a text by themselves.                                          *)

Entity(c) == c \in {"&", "<"}
Name(c) == IF c = "&" THEN "amp;" ELSE "lt;"
Width1(t) == CASE t = "amp;" -> 4 [] t = "lt;" -> 3 [] t = "25" -> 2 [] t = "2B" -> 2 [] t = "3C" -> 2 [] t = "26" -> 2 [] OTHER -> 1
Size(s) == MapThenSumSet(LAMBDA i : Width1(s[i]), DOMAIN s)
\* Characters are taken while the longest escape and the terminator still fit.
Escape(esc, margin, s, room) ==
    FoldLeft(LAMBDA out, c : IF out.stop \/ Size(out.text) + margin >= room THEN [out EXCEPT !.stop = TRUE]
                             ELSE [out EXCEPT !.text = @ \o esc[c]],
             [text |-> << >>, stop |-> FALSE], s).text
HtmlChar(c) == IF Entity(c) THEN <<"&", Name(c)>> ELSE <<c>>
HtmlEncode(s, room) == Escape([c \in Chars |-> HtmlChar(c)], 8, s, room)
\* A sign is decoded with the code after it, once; raw says that the last character may begin such a code.
Unescape(t, sign, code, plus) ==
    FoldLeft(LAMBDA s, c : IF s.raw /\ c \in DOMAIN code THEN [out |-> Append(Front(s.out), code[c]), raw |-> FALSE]
                           ELSE [out |-> Append(s.out, IF c = "+" THEN plus ELSE c), raw |-> c = sign],
             [out |-> << >>, raw |-> FALSE], t).out
HtmlDecode(t) == Unescape(t, "&", [n \in {"amp;", "lt;"} |-> CHOOSE c \in {"&", "<"} : Name(c) = n], "+")
Hex(c) == CASE c = "%" -> "25" [] c = "+" -> "2B" [] c = "<" -> "3C" [] OTHER -> "26"
UrlChar(c) == IF c = " " THEN <<"+">> ELSE IF c \in {"%", "+", "<", "&"} THEN <<"%", Hex(c)>> ELSE <<c>>
UrlEncode(s, room) == Escape([c \in Chars |-> UrlChar(c)], 4, s, room)
UrlDecode(t) == Unescape(t, "%", [h \in {"25", "2B", "3C", "26"} |-> CHOOSE c \in {"%", "+", "<", "&"} : Hex(c) = h], " ")

-----------------------------------------------------------------------------
(* grpc_sim.c *)

VarintEncode(v) ==
    LET go[k \in 0..9] == IF k = 0 THEN [out |-> << >>, v |-> v, stop |-> FALSE]
                          ELSE LET p == go[k - 1] IN
                               IF p.stop THEN p
                               ELSE IF p.v > 127 THEN [p EXCEPT !.out = Append(@, (p.v % 128) + 128), !.v = @ \div 128]
                               ELSE [p EXCEPT !.out = Append(@, p.v), !.stop = TRUE]
    IN  go[9].out
\* The value and the bytes it took; none when no byte ends it.
VarintDecode(b) ==
    LET ends == {i \in DOMAIN b : b[i] < 128}
        n == Min(ends)
    IN  IF ends = {} THEN [v |-> 0, n |-> -1]
        ELSE [v |-> MapThenSumSet(LAMBDA i : (b[i] % 128) * 128^(i - 1), 1..n), n |-> n]
ZigzagEncode(v) == IF v < 0 THEN -2 * v - 1 ELSE 2 * v
ZigzagDecode(u) == IF u % 2 = 0 THEN u \div 2 ELSE -((u + 1) \div 2)

\* A field: its number with the wire type, then a varint or a length and as many bytes.
EncodeField(f) ==
    VarintEncode(8 * f.number + f.wire)
    \o (IF f.wire = 0 THEN VarintEncode(f.value[1]) ELSE VarintEncode(Len(f.value)) \o f.value)
DecodeField(b) ==
    LET key == VarintDecode(b)
        rest == SubSeq(b, key.n + 1, Len(b))
        val == VarintDecode(rest)
    IN  IF key.n <= 0 \/ val.n <= 0 THEN [n |-> -1]
        ELSE IF key.v % 8 = 0 THEN [number |-> key.v \div 8, wire |-> 0, value |-> <<val.v>>, n |-> key.n + val.n]
        ELSE LET took == Min({val.v, Len(rest) - val.n}) IN
             [number |-> key.v \div 8, wire |-> 2, value |-> SubSeq(rest, val.n + 1, val.n + took), n |-> key.n + val.n + took]
\* A message is decoded field by field until its bytes end.
DecodeMessage(b) ==
    LET go[k \in 0..Len(b)] ==
            IF k = 0 THEN [rest |-> b, out |-> << >>]
            ELSE LET p == go[k - 1] IN
                 IF p.rest = << >> \/ DecodeField(p.rest).n <= 0 THEN p
                 ELSE LET f == DecodeField(p.rest) IN
                      [rest |-> SubSeq(p.rest, f.n + 1, Len(p.rest)),
                       out |-> Append(p.out, [number |-> f.number, wire |-> f.wire, value |-> f.value])]
    IN  go[Len(b)].out

\* The head of an HTTP/2 frame; the payload follows.
BigEndian(v, n) == [i \in 1..n |-> (v \div 256^(n - i)) % 256]
Number(b) == FoldLeft(LAMBDA acc, x : 256 * acc + x, 0, b)
BuildFrame(f, last) ==
    BigEndian(f.len, 3) \o <<f.type, IF last /\ f.flags % 2 = 0 THEN f.flags + 1 ELSE f.flags>>
    \o [BigEndian(f.stream, 4) EXCEPT ![1] = @ % 128]
ParseFrame(b) ==
    [len |-> Number(SubSeq(b, 1, 3)), type |-> b[4], flags |-> b[5],
     stream |-> Number([SubSeq(b, 6, 9) EXCEPT ![1] = @ % 128])]

-----------------------------------------------------------------------------
(* websocket.c: the header of a frame, the payload being its length. *)

Bit(v, k) == (v \div 2^k) % 2
Xor(a, b) == MapThenSumSet(LAMBDA k : 2^k * ((Bit(a, k) + Bit(b, k)) % 2), 0..7)
MaskPayload(data, key) == [i \in DOMAIN data |-> Xor(data[i], key[((i - 1) % 4) + 1])]
EncodeHeader(f) ==
    LET m == IF f.masked THEN 128 ELSE 0 IN
    <<(IF f.fin THEN 128 ELSE 0) + f.opcode>>
    \o (IF f.len <= 125 THEN <<m + f.len>>
        ELSE IF f.len <= 65535 THEN <<m + 126>> \o BigEndian(f.len, 2)
        ELSE <<m + 127, 0, 0, 0, 0>> \o BigEndian(f.len, 4))
    \o (IF f.masked THEN f.key ELSE << >>)
Refused == [ok |-> FALSE]
\* b holds the header, len counts the bytes of the whole buffer.
DecodeHeader(b, len) ==
    IF len < 2 THEN Refused ELSE
    LET short == b[2] % 128
        masked == b[2] >= 128
        pos == CASE short = 126 -> 4 [] short = 127 -> 10 [] OTHER -> 2
        head == pos + (IF masked THEN 4 ELSE 0)
        plen == CASE short = 126 -> Number(SubSeq(b, 3, 4)) [] short = 127 -> Number(SubSeq(b, 3, 10)) [] OTHER -> short
    IN  IF len < head THEN Refused
        ELSE IF plen > MaxFrameSize \/ len < head + plen THEN Refused
        ELSE [ok |-> TRUE, fin |-> b[1] >= 128, opcode |-> b[1] % 16, masked |-> masked, len |-> plen,
              key |-> IF masked THEN SubSeq(b, pos + 1, pos + 4) ELSE <<0, 0, 0, 0>>]

-----------------------------------------------------------------------------
(* json_helper.c: a value is a record; its text is the sequence of its     *)
(* characters, of which keywords and numbers count as one and "q", "b",    *)
(* "n" and "c" stand for a quote, a backslash, a line feed and another     *)
(* control character.  The output buffer is taken to be large enough.      *)

JsonValue(type, text, kids) == [type |-> type, text |-> text, kids |-> kids]
JsonAtoms == {"null", "true", "false", "0", "-1.5"}
Containers == {"array", "object"}
Escaped(c) == CASE c = "q" -> <<"b", "q">> [] c = "b" -> <<"b", "b">> [] c = "n" -> <<"b", "n'">>
                [] c = "c" -> <<"b", "u", "c'">> [] OTHER -> <<c>>
Quoted(s) == <<"q">> \o s \o <<"q">>
Listed(parts) == FlattenSeq([i \in DOMAIN parts |-> IF i = 1 THEN parts[i] ELSE <<",">> \o parts[i]])
\* Keys are written as they are, without escapes.
RECURSIVE Serialize(_)
Serialize(v) ==
    CASE v.type = "string" -> Quoted(FlattenSeq([i \in DOMAIN v.text |-> Escaped(v.text[i])]))
      [] v.type = "array" -> <<"[">> \o Listed([i \in DOMAIN v.kids |-> Serialize(v.kids[i].value)]) \o <<"]">>
      [] v.type = "object" ->
            <<"{">> \o Listed([i \in DOMAIN v.kids |-> Quoted(v.kids[i].key) \o <<":">> \o Serialize(v.kids[i].value)]) \o <<"}">>
      [] OTHER -> v.text

\* A string ends at a quote outside an escape and before it fills the token's buffer.
StringToken(t, p) ==
    LET step(s, c) ==
            IF s.st # "in" \/ Len(s.text) >= MaxString - 1 THEN s
            ELSE LET on == [s EXCEPT !.next = @ + 1] IN
                 CASE s.esc = "" /\ c = "q" -> [on EXCEPT !.st = "string"]
                   [] s.esc = "" /\ c = "b" -> [on EXCEPT !.esc = "b"]
                   [] s.esc = "" /\ c \in {"n", "c"} -> [s EXCEPT !.st = "bad"]
                   [] s.esc = "b" /\ c \in {"q", "b", "n'"} -> [on EXCEPT !.esc = "", !.text = Append(@, IF c = "n'" THEN "n" ELSE c)]
                   [] s.esc = "b" /\ c = "u" -> [on EXCEPT !.esc = "u"]
                   [] s.esc = "u" /\ c = "c'" -> [on EXCEPT !.esc = "", !.text = Append(@, "c")]
                   [] s.esc = "" /\ c \notin {"q", "b", "n", "c"} -> [on EXCEPT !.text = Append(@, c)]
                   [] OTHER -> [s EXCEPT !.st = "bad"]
        end == FoldLeft(step, [st |-> "in", esc |-> "", text |-> << >>, next |-> p + 1], SubSeq(t, p + 1, Len(t)))
    IN  [type |-> IF end.st = "string" THEN "string" ELSE "bad", text |-> end.text, next |-> end.next]
Token(t, p) ==
    IF p > Len(t) THEN [type |-> "eof", text |-> << >>, next |-> p]
    ELSE IF t[p] = "q" THEN StringToken(t, p)
    ELSE [type |-> IF t[p] \in JsonAtoms \cup {"{", "}", "[", "]", ",", ":"} THEN t[p] ELSE "bad", text |-> <<t[p]>>, next |-> p + 1]

\* json_value_free is called for each element as well, which lies inside its container's block: the block is
\* given back twice, or an address within it is.
RECURSIVE Frees(_, _)
Frees(v, addr) ==
    FlattenSeq([i \in DOMAIN v.kids |-> Frees(v.kids[i].value, IF i = 1 THEN Append(addr, "block") ELSE addr \o <<"block", i>>)])
    \o (IF v.type \in Containers THEN <<Append(addr, "block")>> ELSE << >>) \o <<addr>>
FreedOnce(v) == IsInjective(Frees(v, <<"root">>)) /\ \A a \in Range(Frees(v, <<"root">>)) : Last(a) \in {"root", "block"}

\* A parse gives a value, nothing, or is undefined once something was freed wrongly.
Parsed(st, v, p) == [st |-> st, value |-> v, next |-> p]
GivenUp(v, p) == Parsed(IF FreedOnce(v) THEN "null" ELSE "undefined", v, p)
ObjectSet(v, key, w) == [v EXCEPT !.kids = Append(@, [key |-> key, value |-> w])]
HasKey(v, key) == \E i \in DOMAIN v.kids : v.kids[i].key = key
RECURSIVE ParseValue(_, _, _), ParseKids(_, _, _, _)
\* The elements of v from p on; a repeated key frees the value it replaces.
ParseKids(t, p, depth, v) ==
    LET object == v.type = "object"
        close == IF object THEN "}" ELSE "]"
        key == Token(t, p)
        colon == Token(t, key.next)
        r == ParseValue(t, IF object THEN colon.next ELSE p, depth + 1)
        w == ObjectSet(v, IF object THEN key.text ELSE << >>, r.value)
        after == Token(t, r.next)
    IN  IF object /\ (key.type # "string" \/ colon.type # ":") THEN GivenUp(v, p)
        ELSE IF r.st = "null" THEN GivenUp(v, p)
        ELSE IF r.st = "undefined" \/ (object /\ HasKey(v, key.text)) THEN Parsed("undefined", v, p)
        ELSE IF after.type = close THEN Parsed("ok", w, after.next)
        ELSE IF after.type # "," THEN GivenUp(w, p)
        ELSE ParseKids(t, after.next, depth, w)
ParseValue(t, p, depth) ==
    LET tok == Token(t, p)
        kind == IF tok.type = "{" THEN "object" ELSE "array"
        none == JsonValue(kind, << >>, << >>)
        first == Token(t, tok.next)
    IN  CASE tok.type = "string" -> Parsed("ok", JsonValue("string", tok.text, << >>), tok.next)
          [] tok.type \in JsonAtoms -> Parsed("ok", JsonValue("atom", tok.text, << >>), tok.next)
          [] tok.type \in {"{", "["} ->
                IF depth > MaxNesting THEN Parsed("null", none, p)
                ELSE IF first.type = (IF kind = "object" THEN "}" ELSE "]") THEN Parsed("ok", none, first.next)
                ELSE ParseKids(t, tok.next, depth, none)
          [] OTHER -> Parsed("null", none, p)
\* What follows the value is not looked at.
JsonParse(t) == ParseValue(t, 1, 0)

\* A path follows keys and indices; a segment that begins with a digit is an index, an empty one ends it.
PathGet(v, path) ==
    FoldLeft(LAMBDA at, seg :
        IF ~at.ok \/ at.over THEN at
        ELSE LET hits == IF seg.index THEN {seg.n} \cap (IF at.v.type = "array" THEN DOMAIN at.v.kids ELSE {})
                         ELSE {i \in DOMAIN at.v.kids : at.v.type = "object" /\ at.v.kids[i].key = seg.key} IN
             IF ~seg.index /\ seg.key = << >> THEN [at EXCEPT !.over = TRUE]
             ELSE IF hits = {} THEN [at EXCEPT !.ok = FALSE]
             ELSE [at EXCEPT !.v = at.v.kids[Min(hits)].value],
        [v |-> v, ok |-> TRUE, over |-> FALSE], path)

-----------------------------------------------------------------------------

\* Values whose containers hold two plain values, and such values wrapped twice.
Leaves == {JsonValue("atom", <<a>>, << >>) : a \in {"null", "0"}} \cup {JsonValue("string", x, << >>) : x \in JsonTexts}
Holding(S, n) ==
    {JsonValue("array", << >>, [i \in DOMAIN k |-> [key |-> << >>, value |-> k[i]]]) : k \in Strings(S, n)}
    \cup {JsonValue("object", << >>, k) : k \in {x \in Strings([key: JsonKeys, value: S], n) :
                                               \A i, j \in DOMAIN x : x[i].key = x[j].key => i = j}}
JsonValues == LET one == Leaves \cup Holding(Leaves, 2)  two == Holding(one, 1) IN one \cup two \cup Holding(two, 1)
Field == [number: Fields, wire: {0}, value: {<<v>> : v \in Integers32}] \cup [number: Fields, wire: {2}, value: Strings(Samples, 2)]
WsFrame == [fin: BOOLEAN, masked: BOOLEAN, opcode: {0, 1, 8}, len: Lengths, key: Masks]
Init ==
    \/ input \in [kind: {"bytes"}, data: Strings(Samples, MaxText)]
    \/ input \in [kind: {"text"}, data: Strings(Chars, MaxText), room: Rooms]
    \/ input \in [kind: {"number"}, data: -(2^(Width - 1))..(2^(Width - 1) - 1)]
    \/ input \in [kind: {"message"}, data: Strings(Field, 2)]
    \/ input \in [kind: {"h2"}, data: [len: Lengths, type: {0, 9}, flags: {0, 1, 4}, stream: Integers32], last: BOOLEAN]
    \/ input \in [kind: {"ws"}, data: WsFrame]
    \/ input \in [kind: {"json"}, data: JsonValues]

RECURSIVE Nesting(_), Within(_)
Nesting(v) == IF v.type \in Containers THEN 1 + Max({Nesting(v.kids[i].value) : i \in DOMAIN v.kids} \cup {0}) ELSE 0
Within(v) == {v} \cup UNION {Within(v.kids[i].value) : i \in DOMAIN v.kids}
Kid(v, i) == IF v.type = "array" THEN [index |-> TRUE, n |-> i] ELSE [index |-> FALSE, key |-> v.kids[i].key]
\* json_helper.c: a value whose keys need no escapes is parsed from its own text exactly while its strings fit a token
\* and its nesting is allowed, and from no shorter text; a path of keys and indices leads to the value it names.
JsonSound(v) ==
    LET t == Serialize(v)
        r == JsonParse(t)
        plain(x) == \A i \in DOMAIN x.kids : Range(x.kids[i].key) \cap {"q", "b", "n", "c"} = {}
        fits(x) == Len(x.text) < MaxString - 1 /\ \A i \in DOMAIN x.kids : Len(x.kids[i].key) < MaxString - 1
    IN  /\ (\A x \in Within(v) : plain(x)) =>
              /\ r.st = "ok" <=> (\A x \in Within(v) : fits(x)) /\ Nesting(v) <= MaxNesting + 1
              /\ r.st = "ok" => r.value = v /\ r.next = Len(t) + 1
              /\ v.type \in Containers => \A n \in 0..(Len(t) - 1) : JsonParse(Prefix(t, n)).st # "ok"
        /\ \A i \in DOMAIN v.kids : LET w == v.kids[i].value IN
              Kid(v, i).index \/ v.kids[i].key # << >> =>
                /\ PathGet(v, <<Kid(v, i)>>).v = w
                /\ \A j \in DOMAIN w.kids : Kid(w, j).index \/ w.kids[j].key # << >> =>
                      PathGet(v, <<Kid(v, i), Kid(w, j)>>).v = w.kids[j].value

\* Every decoder gives back what its encoder was given: Base64 text without padding; as much of an escaped text as
\* fits its buffer, of which no raw markup is left; numbers, messages and frame heads at every length where their
\* form changes.  A WebSocket buffer cut short by a byte, or a longer frame than the limit, is refused.
CodecsSound ==
    LET d == input.data IN
    CASE input.kind = "bytes" ->
            /\ Len(Base64Encode(d)) = 4 * ((Len(d) + 2) \div 3)
            /\ Len(d) % 3 = 0 => Base64Decode(Base64Encode(d), Len(d)) = d
            /\ \A key \in Masks : MaskPayload(MaskPayload(d, key), key) = d
      [] input.kind = "text" ->
            LET html == HtmlEncode(d, input.room)  url == UrlEncode(d, input.room) IN
            /\ Size(html) < input.room /\ "<" \notin Range(html) /\ IsPrefix(HtmlDecode(html), d)
            /\ Size(url) < input.room /\ {"<", " "} \cap Range(url) = {} /\ IsPrefix(UrlDecode(url), d)
            /\ input.room > 8 + 6 * Len(d) => HtmlDecode(html) = d /\ UrlDecode(url) = d
      [] input.kind = "number" ->
            LET u == ZigzagEncode(d) IN u \in 0..(2^Width - 1) /\ ZigzagDecode(VarintDecode(VarintEncode(u)).v) = d
      [] input.kind = "message" -> DecodeMessage(FlattenSeq([i \in DOMAIN d |-> EncodeField(d[i])])) = d
      [] input.kind = "h2" ->
            LET f == ParseFrame(BuildFrame(d, input.last)) IN
            f.len = d.len /\ f.type = d.type /\ f.stream = d.stream /\ (input.last => f.flags % 2 = 1)
      [] input.kind = "ws" ->
            LET b == EncodeHeader(d)  whole == Len(b) + d.len  f == DecodeHeader(b, whole) IN
            /\ f.ok <=> d.len <= MaxFrameSize
            /\ f.ok => /\ f.fin = d.fin /\ f.opcode = d.opcode /\ f.masked = d.masked /\ f.len = d.len
                       /\ d.masked => f.key = d.key
            /\ DecodeHeader(b, whole - 1) = Refused
      [] input.kind = "json" -> JsonSound(d)
=============================================================================
