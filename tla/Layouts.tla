------------------------------ MODULE Layouts ------------------------------
(***************************************************************************)
(* How the Go code writes and reads its binary records.  A buffer is a     *)
(* sequence of atoms, each so many bytes wide; an atom is either a number  *)
(* the reader computes with (a tag, a length, a count) or opaque bytes,    *)
(* which carry the name of the field they were written for.                *)
(*                                                                         *)
(* A layout is a sequence of steps.  An encoder only uses the steps that   *)
(* write a field; a decoder puts the code's length checks between them.  A *)
(* read that no check guards and that runs past the end is a Go panic; one *)
(* that does not fall on what was written at that place is a misread.      *)
(***************************************************************************)
EXTENDS Integers, Sequences, SequencesExt

Step(t, n, w, of) == [t |-> t, n |-> n, w |-> w, of |-> of]

Tag(x)        == Step("tag", "tag", 1, x)       \* the first byte of a tagged message
Fix(n, w)     == Step("fix", n, w, <<>>)        \* w bytes
Blob(n, w)    == Step("blob", n, w, "none")     \* a w-byte length, then the bytes: no check
StrictBlob(n, w) == Step("blob", n, w, "err")   \* the same, a short buffer is an error
LaxBlob(n, w) == Step("blob", n, w, "done")     \* the same, a short buffer ends the decode
Rest(n)       == Step("rest", n, 0, <<>>)       \* whatever is left
List(n, w, of) == Step("list", n, w, of)        \* a w-byte count, then the elements
Many(n, of)   == Step("many", n, 0, of)         \* elements up to the end, no count
Sub(n, of)    == Step("sub", n, 4, of)          \* a 4-byte length, then a record of its own
Need(w)       == Step("need", "", w, <<>>)      \* if len < w { return error }
Until(w)      == Step("until", "", w, <<>>)     \* if len < w { keep what was read }
OrNone(w)     == Step("ornone", "", w, <<>>)    \* if len < w { return nil }
Exactly(w)    == Step("exactly", "", w, <<>>)   \* if len != w { return error }
Counted(n, w, of, size) == Step("counted", n, w, <<of, size>>)
  \* a list whose decoder demands count * size bytes before it reads any, or returns nil
NonEmpty      == Step("nonempty", "", 0, <<>>)  \* drop the element whose sub-record is empty

Num(w, v)   == [w |-> w, k |-> "num", v |-> v]
Bytes(w, v) == [w |-> w, k |-> "bytes", v |-> v]
Str(len, v) == IF len = 0 THEN [len |-> 0, of |-> <<>>] ELSE [len |-> len, of |-> v]

RECURSIVE Size(_), Cut(_, _)
Half(b) == SubSeq(b, 1, Len(b) \div 2)
OtherHalf(b) == SubSeq(b, Len(b) \div 2 + 1, Len(b))
\* The bytes of a buffer, and its first n bytes.
Size(b) == CASE Len(b) = 0 -> 0
             [] Len(b) = 1 -> b[1].w
             [] OTHER -> Size(Half(b)) + Size(OtherHalf(b))
CutHalves(l, r, size, n) == IF n <= size THEN Cut(l, n) ELSE l \o Cut(r, n - size)
Cut(b, n) == CASE n = 0 \/ b = <<>> -> <<>>
               [] n > 0 /\ Len(b) = 1 -> IF b[1].w <= n THEN b ELSE <<[b[1] EXCEPT !.w = n]>>
               [] OTHER -> CutHalves(Half(b), OtherHalf(b), Size(Half(b)), n)

-----------------------------------------------------------------------------
(* Messages: a sequence of named values, in the order they are written.     *)

RECURSIVE Sample(_, _, _)
\* The message of an encoder's layout in which every list and every byte string
\* has about k elements; path tells the elements of a list apart.
SampleLen(k, path) == IF path = <<>> THEN k ELSE (k + Last(path)) % 3
SampleValue(f, k, path) ==
  CASE f.t = "tag" -> f.of
    [] f.t = "fix" -> <<f.n, path>>
    [] f.t \in {"blob", "rest"} -> Str(SampleLen(k, path), <<f.n, path>>)
    [] f.t \in {"list", "many"} -> [j \in 1..k |-> Sample(f.of, k, Append(path, j))]
    [] f.t = "sub" -> Sample(f.of, k, path)
Sample(fs, k, path) == [i \in DOMAIN fs |-> <<fs[i].n, SampleValue(fs[i], k, path)>>]

RECURSIVE Encode(_, _)
EncodeStr(s) == IF s.len = 0 THEN <<>> ELSE <<Bytes(s.len, s.of)>>
EncodeAll(of, ms) == FlattenSeq([j \in DOMAIN ms |-> Encode(of, ms[j])])
Framed(w, b) == <<Num(w, Size(b))>> \o b
EncodeField(f, v) ==
  CASE f.t = "tag" -> <<Num(1, v)>>
    [] f.t = "fix" -> <<Bytes(f.w, v)>>
    [] f.t = "blob" -> Framed(f.w, EncodeStr(v))
    [] f.t = "rest" -> EncodeStr(v)
    [] f.t = "list" -> <<Num(f.w, Len(v))>> \o EncodeAll(f.of, v)
    [] f.t = "many" -> EncodeAll(f.of, v)
    [] f.t = "sub" -> Framed(f.w, Encode(f.of, v))
Encode(fs, m) == FlattenSeq([i \in DOMAIN fs |-> EncodeField(fs[i], m[i][2])])

-----------------------------------------------------------------------------
(* Decoding.  s.st is "more" while the decoder runs, "done" when it returns *)
(* early with what it has, "none" when it returns nil, "skip" when it drops *)
(* the element, and "err", "panic" or "misread" when it fails.              *)

Start(b) == [st |-> "more", b |-> b, n |-> Size(b), got |-> <<>>]
Stop(s, st) == [s EXCEPT !.st = st]
Failed(s) == s.st \in {"err", "panic", "misread"}
Put(s, name, v) == [s EXCEPT !.got = Append(@, <<name, v>>)]

\* Consume the next w bytes, which must be one atom of kind k.
Take(s, w, k) ==
  CASE w = 0 -> s
    [] w > 0 /\ s.n < w -> Stop(s, "panic")
    [] w > 0 /\ s.n >= w /\ (Head(s.b).w # w \/ Head(s.b).k # k) -> Stop(s, "misread")
    [] OTHER -> [s EXCEPT !.b = Tail(@), !.n = @ - w]

ReadTag(f, s) ==
  IF s.n < 1 \/ Head(s.b).v # f.of THEN Stop(s, "err") ELSE Put(Take(s, 1, "num"), f.n, f.of)
ReadFix(f, s, t) == IF Failed(t) THEN t ELSE Put(t, f.n, Head(s.b).v)
ReadStr(f, t, len, u) ==
  IF Failed(u) THEN u ELSE Put(u, f.n, Str(len, IF len = 0 THEN <<>> ELSE Head(t.b).v))
ReadBody(f, t, len) ==
  IF f.of # "none" /\ t.n < len THEN Stop(t, f.of) ELSE ReadStr(f, t, len, Take(t, len, "bytes"))
ReadBlob(f, s, t) ==
  CASE f.of # "none" /\ s.n < f.w -> Stop(s, f.of)
    [] (f.of = "none" \/ s.n >= f.w) /\ Failed(t) -> t
    [] OTHER -> ReadBody(f, t, Head(s.b).v)
ReadRest(f, s) == ReadStr(f, s, s.n, Take(s, s.n, "bytes"))

RECURSIVE Decode(_, _), Elements(_, _, _, _)
\* The elements of a list: k of them, or as many as there are when k is -1.  A nil
\* element makes the whole list nil; an element cut short ends the list before it.
NextElement(of, k, s, acc, e) ==
  CASE Failed(e) -> Stop(s, e.st)
    [] e.st = "none" -> Put(s, "elements", <<>>)
    [] e.st = "done" -> Put(Stop(s, "done"), "elements", acc)
    [] e.st = "skip" -> Elements(of, k - 1, [s EXCEPT !.b = e.b, !.n = e.n], acc)
    [] OTHER -> Elements(of, k - 1, [s EXCEPT !.b = e.b, !.n = e.n], Append(acc, e.got))
Elements(of, k, s, acc) ==
  IF k = 0 \/ (k < 0 /\ s.n = 0) THEN Put(s, "elements", acc)
  ELSE NextElement(of, k, s, acc, Decode(of, [s EXCEPT !.got = <<>>]))
Renamed(f, s, e) ==
  IF Failed(e) THEN e ELSE [e EXCEPT !.got = Append(s.got, <<f.n, Last(e.got)[2]>>)]
ReadList(f, s, t) ==
  IF Failed(t) THEN t ELSE Renamed(f, s, Elements(f.of, Head(s.b).v, t, <<>>))
ReadCounted(f, s, t) ==
  CASE s.n < f.w -> Put(Stop(s, "done"), f.n, <<>>)
    [] s.n >= f.w /\ Failed(t) -> t
    [] s.n >= f.w /\ ~Failed(t) /\ t.n < Head(s.b).v * f.of[2] -> Put(Stop(t, "done"), f.n, <<>>)
    [] OTHER -> Renamed(f, s, Elements(f.of[1], Head(s.b).v, t, <<>>))
\* A length-prefixed record: truncated, it reads as empty and consumes the input.
SubResult(f, t, len, e) ==
  IF Failed(e) THEN Stop(t, e.st)
  ELSE Put([t EXCEPT !.b = SubSeq(@, Len(Cut(@, len)) + 1, Len(@)), !.n = @ - len], f.n,
           IF e.st = "none" \/ e.got = <<>> THEN <<>> ELSE e.got)
ReadSub(f, s, t) ==
  IF s.n < f.w \/ (~Failed(t) /\ t.n < Head(s.b).v)
    THEN Put([s EXCEPT !.b = <<>>, !.n = 0], f.n, <<>>)
  ELSE IF Failed(t) THEN t
       ELSE SubResult(f, t, Head(s.b).v, Decode(f.of, Start(Cut(t.b, Head(s.b).v))))

EmptySub(v) == v = <<>> \/ v[1][2] = <<>>
StepOver(f, s) ==
  CASE f.t = "need" -> IF s.n < f.w THEN Stop(s, "err") ELSE s
    [] f.t = "until" -> IF s.n < f.w THEN Stop(s, "done") ELSE s
    [] f.t = "ornone" -> IF s.n < f.w THEN Stop(s, "none") ELSE s
    [] f.t = "exactly" -> IF s.n # f.w THEN Stop(s, "err") ELSE s
    [] f.t = "nonempty" -> IF EmptySub(Last(s.got)[2]) THEN Stop(s, "skip") ELSE s
    [] f.t = "tag" -> ReadTag(f, s)
    [] f.t = "fix" -> ReadFix(f, s, Take(s, f.w, "bytes"))
    [] f.t = "blob" -> ReadBlob(f, s, Take(s, f.w, "num"))
    [] f.t = "rest" -> ReadRest(f, s)
    [] f.t = "list" -> ReadList(f, s, Take(s, f.w, "num"))
    [] f.t = "many" -> Renamed(f, s, Elements(f.of, -1, s, <<>>))
    [] f.t = "counted" -> ReadCounted(f, s, Take(s, f.w, "num"))
    [] f.t = "sub" -> ReadSub(f, s, Take(s, f.w, "num"))
Decode(fs, s) == IF s.st # "more" \/ fs = <<>> THEN s ELSE Decode(Tail(fs), StepOver(Head(fs), s))
=============================================================================
