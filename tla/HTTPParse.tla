------------------------------ MODULE HTTPParse ------------------------------
(***************************************************************************)
(* The HTTP/1.x framing of mirror-agent/tracker.go: parseOneRequest and    *)
(* the two packet heuristics, as operators on byte streams.                *)
(*                                                                         *)
(* A byte stream is a sequence of units.  A unit is the smallest piece of  *)
(* text the parser's decisions depend on, and every unit counts one        *)
(* towards a length.  A segment boundary falls between two units: bytes    *)
(* of a unit that has not fully arrived never change a decision.           *)
(*   start    "GET /path HTTP/1.1" CRLF, val names the request             *)
(*   clen     "Content-Length: n" CRLF, val = n                            *)
(*   badclen  a Content-Length line whose value strconv.Atoi rejects       *)
(*   wildclen one whose value Atoi takes and make refuses: it is negative, *)
(*            or so large that bodyStart + contentLength wraps around      *)
(*   line     a line without a space, such as the size line of a chunk     *)
(*   blank    CRLF alone                                                   *)
(*   text     a printable body byte, neither space nor CRLF                *)
(*   bin      a body byte that is not printable                            *)
(***************************************************************************)
EXTENDS Integers, Sequences, FiniteSets

Kinds == {"start", "clen", "badclen", "wildclen", "line", "blank", "text", "bin"}

Unit == [kind : Kinds, val : Nat]

\* Units whose text ends in CRLF.
EndsLine(u) == u.kind \in Kinds \ {"text", "bin"}

IsContentLength(u) == u.kind \in {"clen", "badclen", "wildclen"}

\* Units whose text contains a space, the separator of a request line.
Spaced(u) == u.kind = "start" \/ IsContentLength(u)

\* The smallest element of a non-empty set of naturals.
Least(S) == CHOOSE i \in S : \A j \in S : i <= j

\* The slice s[n:].
Drop(s, n) == [i \in 1 .. Len(s) - n |-> s[i + n]]

(***************************************************************************)
(* parseOneRequest                                                         *)
(***************************************************************************)

\* Positions i such that CRLF CRLF starts at the end of unit i.
HeaderEnds(data) ==
  {i \in 1 .. Len(data) : /\ i + 1 <= Len(data)
                          /\ EndsLine(data[i])
                          /\ data[i + 1].kind = "blank"}

\* Where the first line, lines[0], of a header section ends.
FirstLineEnd(data) == Least({i \in 1 .. Len(data) : EndsLine(data[i])})

\* strings.SplitN(lines[0], " ", 3) has at least two parts.
HasTwoParts(data) ==
  \E i \in 1 .. FirstLineEnd(data) : Spaced(data[i])

\* Content-Length lines among lines[1:] of the section that ends at h.  A unit
\* starts a line only if the unit before it ended one.
ContentLengths(data, h) ==
  {i \in 2 .. h : IsContentLength(data[i]) /\ EndsLine(data[i - 1])}

\* headers.Get returns the first value; one that Atoi rejects counts as 0.
\* The sum of a wild one and bodyStart is negative, so never too long.
ContentLength(data, h) ==
  LET cls == ContentLengths(data, h)
  IN  IF cls # {} /\ data[Least(cls)].kind = "clen"
      THEN data[Least(cls)].val
      ELSE 0

CapturedRequest == [line : Seq(Unit), body : Seq(Unit)]

Incomplete == [st |-> "incomplete", n |-> 0,
               req |-> [line |-> <<>>, body |-> <<>>]]

ParseError == [Incomplete EXCEPT !.st = "error"]

MakePanics == [Incomplete EXCEPT !.st = "panic"]

\* The first Content-Length is one that make([]byte, contentLength) refuses.
IsWild(data, h) ==
  LET cls == ContentLengths(data, h)
  IN  cls # {} /\ data[Least(cls)].kind = "wildclen"

\* parseOneRequest(data): (req, n, err).  "incomplete" is (nil, 0, nil),
\* "error" is (nil, 0, err), "ok" is (req, totalLen, nil), and "panic" does not
\* return.
parseOneRequest(data) ==
  LET h     == Least(HeaderEnds(data))
      total == h + 1 + ContentLength(data, h)
  IN  IF HeaderEnds(data) = {} THEN Incomplete
      ELSE IF ~HasTwoParts(data) THEN ParseError
      ELSE IF IsWild(data, h) THEN MakePanics
      ELSE IF Len(data) < total THEN Incomplete
      ELSE [st  |-> "ok",
            n   |-> total,
            req |-> [line |-> SubSeq(data, 1, FirstLineEnd(data)),
                     body |-> SubSeq(data, h + 2, total)]]

(***************************************************************************)
(* The heuristics Feed applies to a packet before it touches the tracker   *)
(***************************************************************************)

looksLikeHTTP(data) == data[1].kind = "start"

\* At least 80% of the first Window units are printable.
looksLikeContinuation(data, Window) ==
  LET check     == IF Len(data) > Window THEN Window ELSE Len(data)
      printable == Cardinality({i \in 1 .. check : data[i].kind # "bin"})
  IN  printable * 10 >= check * 8

=============================================================================
