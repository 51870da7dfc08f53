----------------------------- MODULE ServerProofs -----------------------------
(***************************************************************************)
(* lab3: what a worker makes of the bytes of a request and, in the second  *)
(* part, the thread pool the workers run in, for every message, buffer     *)
(* length and limit of headers, and for every set of workers and tasks.    *)
(*                                                                         *)
(* HttpRequest. The fields of the request are what malloc left until a     *)
(* line has ended and what sscanf finds from then on (FieldInv), and the   *)
(* handler goes on with exactly what __validate_request lets pass          *)
(* (VerdictInv): what is acted on are the words of the client, each as far *)
(* as it fits its field and the rest of it in the next one, or, if the     *)
(* line has not arrived as a whole, what malloc left of an earlier one.    *)
(* The parser may run past the data by the two bytes it skips at a line    *)
(* end, past the buffer only after a bare LF at the very end of it, and    *)
(* never comes to stand on the LF of a CRLF (PtrInv). While every line     *)
(* ends in CRLF the line ends it has passed are the first one and those of *)
(* the headers copied so far (HeadersInv), so that, with no more lines     *)
(* than the limit, it forwards every header line; the list of libcurl is   *)
(* the tail of those lines that follows its last failed append (SlistInv). *)
(***************************************************************************)
EXTENDS HttpRequest, ThreadPool, FiniteSetTheorems, SequenceTheorems, WellFoundedInduction, TLAPS

\* What request_buf is made of, and its places.
Bytes == Words \cup {SP, CR, LF}
Places == 1..BufferLength

\* Nothing of what a later step produces is there before it.
Types ==
  /\ msg \in Seq(Bytes) /\ data \in Seq(Bytes) /\ Len(data) <= BufferLength - 1
  /\ memory \in {JUNK, OLD}
  /\ pc \in {"recv", "line", "headers", "body", "validate", "slist", "perform", "sent",
             "failed", "closed"}
  /\ headers \in Seq(Places \X Places)
  /\ Len(headers) <= HeaderLimit /\ (pc = "headers" => Len(headers) < HeaderLimit)
  /\ ptr \in Nat /\ ptr >= 1
  /\ pc = "recv" => data = <<>>
  /\ pc \in {"recv", "line"} => ptr = 1 /\ headers = <<>>
  /\ pc \in {"recv", "line", "headers", "body"} => body = JUNK
  /\ pc \in {"validate", "slist", "perform", "sent", "failed", "closed"} =>
       body = IF ptr <= Len(data) THEN ptr ELSE JUNK
  /\ pc = "sent" /\ sent[1] \in {POST, PUT} => sent[2] = body

\* The fields are malloc's until a line has ended, and sscanf's from then on.
FieldInv ==
  IF LFs = {} \/ pc \in {"recv", "line"}
    THEN method = Left(memory) /\ path = Left(memory) /\ version = Left(memory)
    ELSE /\ method = Scanned(Word1, Left(memory))
         /\ path = Scanned(Word2, Left(memory))
         /\ version = Scanned(Word3, Left(memory))

\* What __validate_request lets pass.
Valid == Content(version, Version) = <<Version>> /\ Content(path, Path) # <<Blocked>>

\* The handler goes on exactly with what is valid.
VerdictInv ==
  /\ Acted => Valid
  /\ pc = "closed" => data = <<>> \/ ~Valid

\* The parser never comes to stand on the LF of a CRLF.
PtrInv ==
  /\ ptr <= Len(data) + 2
  /\ ptr > BufferLength => Len(data) = BufferLength - 1 /\ BareLF(Len(data))
  /\ ptr \in 2..Len(data) /\ data[ptr] = LF => data[ptr - 1] # CR

\* No line ends in a bare LF, and at least one ends.
Clean == LineEnds # {} /\ \A i \in LFs : ~BareLF(i)
\* The line ends the parser has passed, and those of the headers it has copied.
Passed == {e \in LineEnds : e < ptr}
Ends == {headers[k][2] : k \in DOMAIN headers}

\* The lines copied so far, and what the parser has passed.
HeadersInv ==
  Clean /\ pc \notin {"recv", "line"} =>
    /\ \A k \in DOMAIN headers :
         headers[k][2] \in LineEnds \ {Least(LineEnds)} /\ headers[k] = Line(headers[k][2])
    /\ \A j, k \in DOMAIN headers : j < k => headers[j][2] < headers[k][2]
    /\ pc = "headers" \/ Cardinality(LineEnds) <= HeaderLimit =>
         /\ ptr - 2 \in LineEnds
         /\ Passed = {Least(LineEnds)} \cup Ends
         /\ Cardinality(Passed) = Len(headers) + 1
    /\ pc # "headers" /\ Cardinality(LineEnds) <= HeaderLimit => Passed = LineEnds

\* The list is the last of the lines appended so far, all of them if no call
\* failed.
SlistInv ==
  /\ slist \in Seq(Nat \X Nat) /\ appended \in 0..Len(Lines) /\ Len(slist) <= appended
  /\ \A k \in DOMAIN slist : slist[k] = Lines[appended - Len(slist) + k]
  /\ ~lost => Len(slist) = appended
  /\ pc \in {"recv", "line", "headers", "body", "validate"} => appended = 0 /\ lost = FALSE
  /\ pc = "slist" => appended < Len(Lines)
  /\ pc \in {"perform", "sent"} => appended = Len(Lines)

\* The inductive invariant.
IInv == Types /\ FieldInv /\ VerdictInv /\ PtrInv /\ HeadersInv /\ SlistInv

-----------------------------------------------------------------------------
(* The searches *)

\* A set of places that is not empty has a least one.
LEMMA LeastFacts ==
  ASSUME NEW S \in SUBSET Nat, S # {}
  PROVE  Least(S) \in S /\ \A y \in S : Least(S) <= y
<1> DEFINE R == OpToRel(<, Nat)
<1>1. R = {ss \in Nat \X Nat : ss[1] < ss[2]}
  BY DEF OpToRel
<1>2. IsWellFoundedOn(R, Nat)
  BY NatLessThanWellFounded
<1> HIDE DEF R
<1>3. PICK x \in S : \A y \in S : ~(<<y, x>> \in R)
  BY <1>2, WFMin
<1>4. \A y \in S : ~(y < x)
  BY <1>1, <1>3
<1>5. \A y \in S : x <= y
  BY <1>4
<1> QED
  BY <1>5 DEF Least

\* The line end found is a CRLF, or, if there is none, a bare LF.
LEMMA LineEndFacts ==
  ASSUME data \in Seq(Bytes), NEW from \in Nat, from >= 1
  PROVE  LET e == LineEnd(from) IN
         /\ e = 0 => \A i \in from..Len(data) : data[i] # LF
         /\ e # 0 =>
              /\ e \in from..Len(data)
              /\ \/ /\ e \in from..(Len(data) - 1) /\ data[e] = CR /\ data[e + 1] = LF
                    /\ \A i \in from..(e - 1) : ~(data[i] = CR /\ data[i + 1] = LF)
                 \/ /\ data[e] = LF
                    /\ \A i \in from..(Len(data) - 1) : ~(data[i] = CR /\ data[i + 1] = LF)
<1> DEFINE crlf == {i \in from..(Len(data) - 1) : data[i] = CR /\ data[i + 1] = LF}
           lf == {i \in from..Len(data) : data[i] = LF}
           e == LineEnd(from)
<1>1. e = IF crlf # {} THEN Least(crlf) ELSE IF lf # {} THEN Least(lf) ELSE 0
  BY DEF LineEnd
<1>2. crlf \in SUBSET Nat /\ lf \in SUBSET Nat /\ Len(data) \in Nat
  OBVIOUS
<1>3. CASE crlf # {}
  <2> HIDE DEF crlf, lf, e
  <2>1. e \in crlf /\ \A j \in crlf : e <= j
    BY <1>1, <1>2, <1>3, LeastFacts
  <2>2. e \in from..(Len(data) - 1) /\ data[e] = CR /\ data[e + 1] = LF
    BY <2>1 DEF crlf
  <2>3. ASSUME NEW i \in from..(e - 1) PROVE ~(data[i] = CR /\ data[i + 1] = LF)
    <3>1. i \in from..(Len(data) - 1) /\ ~(e <= i)
      BY <1>2, <2>2
    <3> QED
      BY <2>1, <3>1 DEF crlf
  <2>4. e # 0 /\ e \in from..Len(data)
    BY <1>2, <2>2
  <2> QED
    BY <2>2, <2>3, <2>4 DEF e
<1>4. CASE crlf = {} /\ lf # {}
  <2>1. \A i \in from..(Len(data) - 1) : ~(data[i] = CR /\ data[i + 1] = LF)
    BY <1>4
  <2> HIDE DEF crlf, lf, e
  <2>2. e \in lf
    BY <1>1, <1>2, <1>4, LeastFacts
  <2>3. e \in from..Len(data) /\ data[e] = LF /\ e # 0
    BY <2>2 DEF lf
  <2> QED
    BY <2>1, <2>3 DEF e
<1>5. CASE crlf = {} /\ lf = {}
  <2>1. e = 0
    BY <1>1, <1>5
  <2>2. \A i \in from..Len(data) : data[i] # LF
    BY <1>5
  <2> QED
    BY <2>1, <2>2
<1> QED
  BY <1>3, <1>4, <1>5

\* What a conversion of sscanf takes: pieces without a blank, from the first one
\* there is, up to the end of the word or the width of the field.
Takes(w, i, width) ==
  /\ w \in (1..Len(data)) \X (1..Len(data)) /\ i <= w[1] /\ w[1] <= w[2]
  /\ \A k \in i..(w[1] - 1) : data[k] \notin Words
  /\ \A k \in w[1]..w[2] : data[k] \in Words
  /\ w[2] <= w[1] + width - 1
  /\ w[2] = w[1] + width - 1 \/ w[2] = Len(data) \/ data[w[2] + 1] \notin Words

LEMMA WordFromFacts ==
  ASSUME data \in Seq(Bytes), NEW i \in Nat, i >= 1, NEW width \in Nat, width >= 1
  PROVE  \/ WordFrom(i, width) = None /\ \A k \in i..Len(data) : data[k] \notin Words
         \/ WordFrom(i, width) # None /\ Takes(WordFrom(i, width), i, width)
<1> DEFINE begins == {j \in i..Len(data) : data[j] \in Words}
           b == Least(begins)
           ends == {e \in b..Len(data) : e = b + width - 1 \/ e = Len(data) \/ data[e + 1] \notin Words}
           e == Least(ends)
<1>1. WordFrom(i, width) = IF begins = {} THEN None ELSE <<b, e>>
  BY DEF WordFrom
<1>2. Len(data) \in Nat
  OBVIOUS
<1>3. CASE begins = {}
  BY <1>1, <1>3
<1>4. CASE begins # {}
  <2>1. b \in begins /\ \A y \in begins : b <= y
    <3>1. begins \in SUBSET Nat
      OBVIOUS
    <3> HIDE DEF begins
    <3> QED
      BY <1>4, <3>1, LeastFacts
  <2>2. b \in i..Len(data) /\ b \in Nat /\ b >= 1 /\ data[b] \in Words
    BY <1>2, <2>1
  <2>3. \A k \in i..(b - 1) : data[k] \notin Words
    <3> SUFFICES ASSUME NEW k \in i..(b - 1), data[k] \in Words PROVE FALSE
      OBVIOUS
    <3>1. k \in begins /\ ~(b <= k)
      BY <1>2, <2>2
    <3> QED
      BY <2>1, <3>1
  <2>4. e \in ends /\ \A y \in ends : e <= y
    <3> HIDE DEF begins, b
    <3>0. ends \in SUBSET Nat
      BY <2>2
    <3>1. Len(data) \in ends
      <4>1. Len(data) \in b..Len(data)
        BY <1>2, <2>2
      <4> QED
        BY <4>1
    <3>2. ends # {}
      BY <3>1
    <3> HIDE DEF ends
    <3> QED
      BY <3>0, <3>2, LeastFacts
  <2>5. /\ e \in b..Len(data)
        /\ e = b + width - 1 \/ e = Len(data) \/ data[e + 1] \notin Words
    BY <2>4
  <2>6. \A y \in b..Len(data) :
          (y = b + width - 1 \/ y = Len(data) \/ data[y + 1] \notin Words) => e <= y
    BY <2>4
  <2> HIDE DEF begins, b, ends, e
  <2>7. e <= b + width - 1
    <3> SUFFICES ASSUME b + width - 1 < e PROVE FALSE
      BY <2>2, <2>5
    <3> DEFINE y == b + width - 1
    <3>1. y \in b..Len(data) /\ y < e /\ y = b + width - 1
      BY <1>2, <2>2, <2>5
    <3> HIDE DEF y
    <3>2. e <= y
      BY <2>6, <3>1
    <3> QED
      BY <2>2, <2>5, <3>1, <3>2
  <2>8. ASSUME NEW k \in b..e PROVE data[k] \in Words
    <3>1. CASE k = b
      BY <2>2, <3>1
    <3>2. CASE k # b
      <4>1. k - 1 \in b..Len(data) /\ ~(e <= k - 1) /\ (k - 1) + 1 = k
        BY <1>2, <2>2, <2>5, <3>2
      <4> QED
        BY <2>6, <4>1
    <3> QED
      BY <3>1, <3>2
  <2>9. WordFrom(i, width) = <<b, e>>
    BY <1>1, <1>4 DEF begins, b, ends, e
  <2>10. <<b, e>> # None
    BY <2>2 DEF None, Left, JUNK
  <2>11. b \in 1..Len(data) /\ e \in 1..Len(data) /\ b <= e /\ i <= b
    BY <1>2, <2>2, <2>5
  <2> QED
    BY <2>3, <2>5, <2>7, <2>8, <2>9, <2>10, <2>11 DEF Takes
<1> QED
  BY <1>3, <1>4

\* A conversion that has a word in front of it which fits its field takes it.
LEMMA FindsWord ==
  ASSUME data \in Seq(Bytes), NEW i \in Nat, i >= 1, NEW width \in Nat, width >= 1,
         NEW w \in AllWords, i <= w[1], Fits(w, width),
         \A k \in i..(w[1] - 1) : data[k] \notin Words
  PROVE  WordFrom(i, width) = w
<1> DEFINE f == WordFrom(i, width)
<1>1. /\ w \in (1..Len(data)) \X (1..Len(data))
      /\ w[1] \in 1..Len(data) /\ w[2] \in 1..Len(data) /\ w[1] <= w[2] /\ Len(data) \in Nat
      /\ \A k \in w[1]..w[2] : data[k] \in Words
      /\ w[2] = Len(data) \/ data[w[2] + 1] \notin Words
      /\ w = <<w[1], w[2]>>
  BY DEF AllWords
<1>2. w[1] \in i..Len(data) /\ data[w[1]] \in Words
  BY <1>1
<1>3. Takes(f, i, width)
  BY <1>2, WordFromFacts
<1> HIDE DEF f
<1>4. /\ f[1] \in 1..Len(data) /\ f[2] \in 1..Len(data) /\ f = <<f[1], f[2]>>
      /\ i <= f[1] /\ f[1] <= f[2] /\ f[2] <= f[1] + width - 1
      /\ \A k \in i..(f[1] - 1) : data[k] \notin Words
      /\ \A k \in f[1]..f[2] : data[k] \in Words
      /\ f[2] = f[1] + width - 1 \/ f[2] = Len(data) \/ data[f[2] + 1] \notin Words
  BY <1>3 DEF Takes
<1>5. f[1] = w[1]
  <2>1. ~(w[1] < f[1])
    BY <1>1, <1>2, <1>4
  <2>2. ASSUME f[1] < w[1] PROVE FALSE
    <3>1. f[1] \in i..(w[1] - 1) /\ f[1] \in f[1]..f[2]
      BY <1>1, <1>4, <2>2
    <3> QED
      BY <1>4, <3>1
  <2> QED
    BY <1>1, <1>4, <2>1, <2>2
<1>6. f[2] = w[2]
  <2>1. ASSUME f[2] < w[2] PROVE FALSE
    <3>1. f[2] + 1 \in w[1]..w[2]
      BY <1>1, <1>4, <1>5, <2>1
    <3>2. f[2] # Len(data) /\ data[f[2] + 1] \in Words
      BY <1>1, <1>4, <2>1, <3>1
    <3>3. f[2] # f[1] + width - 1
      BY <1>1, <1>4, <1>5, <2>1 DEF Fits
    <3> QED
      BY <1>4, <3>2, <3>3
  <2>2. ASSUME w[2] < f[2] PROVE FALSE
    <3>1. w[2] + 1 \in f[1]..f[2] /\ w[2] # Len(data)
      BY <1>1, <1>4, <1>5, <2>2
    <3> QED
      BY <1>1, <1>4, <3>1
  <2> QED
    BY <1>1, <1>4, <2>1, <2>2
<1> QED
  BY <1>1, <1>4, <1>5, <1>6 DEF f

\* The words found are places of the data, the third implies the others, and
\* then they hold all the words up to it.
LEMMA WordFacts ==
  ASSUME data \in Seq(Bytes)
  PROVE  /\ \A w \in {Word1, Word2, Word3} :
              w = None \/ w \in (1..Len(data)) \X (1..Len(data))
         /\ Word3 # None => Word2 # None /\ Word1 # None /\ Covers(Word1, Word2, Word3)
<1>0. /\ MethodWidth \in Nat /\ MethodWidth >= 1 /\ PathWidth \in Nat /\ PathWidth >= 1
      /\ VersionWidth \in Nat /\ VersionWidth >= 1 /\ Len(data) \in Nat
  BY WidthAssumption
<1>1. Word1 = None \/ Takes(Word1, 1, MethodWidth)
  BY <1>0, WordFromFacts DEF Word1
<1>2. ASSUME Word1 # None PROVE Word2 = None \/ Takes(Word2, Word1[2] + 1, PathWidth)
  <2>1. Word1[2] + 1 \in Nat /\ Word1[2] + 1 >= 1
    BY <1>1, <1>2 DEF Takes
  <2> QED
    BY <1>0, <1>2, <2>1, WordFromFacts DEF Word2
<1>3. Word1 = None => Word2 = None
  BY DEF Word2
<1>4. ASSUME Word2 # None PROVE Word3 = None \/ Takes(Word3, Word2[2] + 1, VersionWidth)
  <2>1. Word2[2] + 1 \in Nat /\ Word2[2] + 1 >= 1
    BY <1>2, <1>3, <1>4 DEF Takes
  <2> QED
    BY <1>0, <1>4, <2>1, WordFromFacts DEF Word3
<1>5. Word2 = None => Word3 = None
  BY DEF Word3
<1>6. \A w \in {Word1, Word2, Word3} : w = None \/ w \in (1..Len(data)) \X (1..Len(data))
  BY <1>1, <1>2, <1>3, <1>4, <1>5 DEF Takes
<1>7. ASSUME Word3 # None PROVE Word2 # None /\ Word1 # None /\ Covers(Word1, Word2, Word3)
  <2>1. Word1 # None /\ Word2 # None
    BY <1>3, <1>5, <1>7
  <2>2. /\ Takes(Word1, 1, MethodWidth) /\ Takes(Word2, Word1[2] + 1, PathWidth)
        /\ Takes(Word3, Word2[2] + 1, VersionWidth)
    BY <1>1, <1>2, <1>4, <1>7, <2>1
  <2>3. /\ Word1[1] \in Nat /\ Word1[2] \in Nat /\ Word2[1] \in Nat /\ Word2[2] \in Nat
        /\ Word3[1] \in Nat /\ Word3[2] \in Nat
        /\ Word1[2] < Word2[1] /\ Word2[2] < Word3[1]
        /\ \A k \in 1..(Word1[1] - 1) : data[k] \notin Words
        /\ \A k \in (Word1[2] + 1)..(Word2[1] - 1) : data[k] \notin Words
        /\ \A k \in (Word2[2] + 1)..(Word3[1] - 1) : data[k] \notin Words
    BY <2>2 DEF Takes
  <2>4. ASSUME NEW k \in 1..Word3[2], data[k] \in Words
        PROVE  k \in (Word1[1]..Word1[2]) \cup (Word2[1]..Word2[2]) \cup (Word3[1]..Word3[2])
    <3> HIDE DEF Word1, Word2, Word3
    <3> QED
      BY <2>3, <2>4
  <2> QED
    BY <2>1, <2>3, <2>4 DEF Covers
<1> QED
  BY <1>6, <1>7

\* The conversions find the words of a complete line.
LEMMA CompleteFacts ==
  ASSUME data \in Seq(Bytes), NEW a \in AllWords, NEW b \in AllWords, NEW c \in AllWords,
         Complete(a, b, c)
  PROVE  Word1 = a /\ Word2 = b /\ Word3 = c
<1>0. /\ MethodWidth \in Nat /\ MethodWidth >= 1 /\ PathWidth \in Nat /\ PathWidth >= 1
      /\ VersionWidth \in Nat /\ VersionWidth >= 1 /\ Len(data) \in Nat
  BY WidthAssumption
<1>1. \A w \in AllWords : w[1] \in 1..Len(data) /\ w[2] \in 1..Len(data) /\ w[1] <= w[2] /\ w # None
  BY DEF AllWords, None, Left, JUNK
<1>2. /\ Fits(a, MethodWidth) /\ Fits(b, PathWidth) /\ Fits(c, VersionWidth)
      /\ a[2] < b[1] /\ b[2] < c[1]
      /\ \A i \in 1..c[2] : data[i] \in Words => i \in (a[1]..a[2]) \cup (b[1]..b[2]) \cup (c[1]..c[2])
  BY DEF Complete, Covers
<1>3. /\ \A k \in 1..(a[1] - 1) : data[k] \notin Words
      /\ \A k \in (a[2] + 1)..(b[1] - 1) : data[k] \notin Words
      /\ \A k \in (b[2] + 1)..(c[1] - 1) : data[k] \notin Words
  <2>0. /\ a[1] \in Nat /\ a[2] \in Nat /\ a[1] >= 1 /\ a[1] <= a[2]
        /\ b[1] \in Nat /\ b[2] \in Nat /\ b[1] <= b[2]
        /\ c[1] \in Nat /\ c[2] \in Nat /\ c[1] <= c[2]
    BY <1>0, <1>1
  <2>1. ASSUME NEW k \in 1..(a[1] - 1) PROVE data[k] \notin Words
    <3>1. k \in 1..c[2] /\ ~(k \in (a[1]..a[2]) \cup (b[1]..b[2]) \cup (c[1]..c[2]))
      BY <1>2, <2>0
    <3> QED
      BY <1>2, <3>1
  <2>2. ASSUME NEW k \in (a[2] + 1)..(b[1] - 1) PROVE data[k] \notin Words
    <3>1. k \in 1..c[2] /\ ~(k \in (a[1]..a[2]) \cup (b[1]..b[2]) \cup (c[1]..c[2]))
      BY <1>2, <2>0
    <3> QED
      BY <1>2, <3>1
  <2>3. ASSUME NEW k \in (b[2] + 1)..(c[1] - 1) PROVE data[k] \notin Words
    <3>1. k \in 1..c[2] /\ ~(k \in (a[1]..a[2]) \cup (b[1]..b[2]) \cup (c[1]..c[2]))
      BY <1>2, <2>0
    <3> QED
      BY <1>2, <3>1
  <2> QED
    BY <2>1, <2>2, <2>3
<1>4. Word1 = a
  <2>1. 1 \in Nat /\ 1 >= 1 /\ 1 <= a[1]
    BY <1>1
  <2>2. WordFrom(1, MethodWidth) = a
    BY <1>0, <1>2, <1>3, <2>1, FindsWord
  <2> QED
    BY <2>2 DEF Word1
<1>5. Word2 = b
  <2>1. a[2] + 1 \in Nat /\ a[2] + 1 >= 1 /\ a[2] + 1 <= b[1]
    BY <1>0, <1>1, <1>2
  <2>2. WordFrom(a[2] + 1, PathWidth) = b
    BY <1>0, <1>2, <1>3, <2>1, FindsWord
  <2> QED
    BY <1>1, <1>4, <2>2 DEF Word2
<1>6. Word3 = c
  <2>1. b[2] + 1 \in Nat /\ b[2] + 1 >= 1 /\ b[2] + 1 <= c[1]
    BY <1>0, <1>1, <1>2
  <2>2. WordFrom(b[2] + 1, VersionWidth) = c
    BY <1>0, <1>2, <1>3, <2>1, FindsWord
  <2> QED
    BY <1>1, <1>5, <2>2 DEF Word3
<1> QED
  BY <1>4, <1>5, <1>6

\* Where lines end in CRLF.
LEMMA LineEndsFacts ==
  ASSUME data \in Seq(Bytes)
  PROVE  /\ LineEnds = {i \in 1..(Len(data) - 1) : data[i] = CR /\ data[i + 1] = LF}
         /\ LineEnds \in SUBSET Nat /\ IsFiniteSet(LineEnds)
         /\ LFs = {i \in 1..Len(data) : data[i] = LF}
<1>1. DOMAIN data = 1..Len(data) /\ Len(data) \in Nat
  OBVIOUS
<1>2. LFs = {i \in 1..Len(data) : data[i] = LF}
  BY <1>1 DEF LFs
<1>3. LineEnds = {i \in 1..(Len(data) - 1) : data[i] = CR /\ data[i + 1] = LF}
  BY <1>1, <1>2 DEF LineEnds, CRs
<1>4. IsFiniteSet(1..Len(data)) /\ LineEnds \in SUBSET (1..Len(data))
  BY <1>1, <1>3, FS_Interval
<1>5. IsFiniteSet(LineEnds)
  BY <1>4, FS_Subset
<1> QED
  BY <1>2, <1>3, <1>4, <1>5

\* If every LF is part of a CRLF, the parser, which never stands on an LF behind
\* a CR, finds the next of these.
LEMMA CleanFacts ==
  ASSUME data \in Seq(Bytes), \A i \in LFs : ~BareLF(i),
         NEW from \in Nat, from >= 1,
         from \in 2..Len(data) /\ data[from] = LF => data[from - 1] # CR
  PROVE  /\ LineEnd(from) = 0 => \A x \in LineEnds : x < from
         /\ LineEnd(from) # 0 => /\ LineEnd(from) \in LineEnds /\ LineEnd(from) >= from
                                 /\ \A x \in LineEnds : x < LineEnd(from) => x < from
<1> DEFINE e == LineEnd(from)
<1>1. /\ e = 0 => \A i \in from..Len(data) : data[i] # LF
      /\ e # 0 =>
              /\ e \in from..Len(data)
              /\ \/ /\ e \in from..(Len(data) - 1) /\ data[e] = CR /\ data[e + 1] = LF
                    /\ \A i \in from..(e - 1) : ~(data[i] = CR /\ data[i + 1] = LF)
                 \/ /\ data[e] = LF
                    /\ \A i \in from..(Len(data) - 1) : ~(data[i] = CR /\ data[i + 1] = LF)
  BY LineEndFacts
<1>2. LineEnds = {i \in 1..(Len(data) - 1) : data[i] = CR /\ data[i + 1] = LF}
  BY LineEndsFacts
<1>3. \A i \in 1..Len(data) : data[i] = LF => i # 1 /\ data[i - 1] = CR
  BY LineEndsFacts DEF BareLF
<1> HIDE DEF e
<1>4. Len(data) \in Nat
  OBVIOUS
<1>5. ASSUME e = 0, NEW x \in LineEnds PROVE x < from
  <2>1. x \in 1..(Len(data) - 1) /\ data[x + 1] = LF
    BY <1>2
  <2>2. x + 1 \in from..Len(data) => data[x + 1] # LF
    BY <1>1, <1>5
  <2> QED
    BY <1>4, <2>1, <2>2
<1>6. ASSUME e # 0, data[e] = LF,
             \A i \in from..(Len(data) - 1) : ~(data[i] = CR /\ data[i + 1] = LF)
      PROVE  FALSE
  <2>1. e \in from..Len(data)
    BY <1>1, <1>6
  <2>2. e # 1 /\ data[e - 1] = CR /\ e \in 1..Len(data)
    BY <1>3, <1>4, <1>6, <2>1
  <2>3. CASE e = from
    BY <1>4, <1>6, <2>1, <2>2, <2>3
  <2>4. CASE e # from
    <3>1. e - 1 \in from..(Len(data) - 1) /\ (e - 1) + 1 = e
      BY <1>4, <2>1, <2>4
    <3> QED
      BY <1>6, <2>2, <3>1
  <2> QED
    BY <2>3, <2>4
<1>7. ASSUME e # 0 PROVE /\ e \in LineEnds /\ e >= from
                         /\ \A x \in LineEnds : x < e => x < from
  <2>1. /\ e \in from..(Len(data) - 1) /\ data[e] = CR /\ data[e + 1] = LF
        /\ \A i \in from..(e - 1) : ~(data[i] = CR /\ data[i + 1] = LF)
    BY <1>1, <1>6, <1>7
  <2>2. e \in LineEnds /\ e >= from
    BY <1>2, <1>4, <2>1
  <2>3. ASSUME NEW x \in LineEnds, x < e PROVE x < from
    <3>1. x \in 1..(Len(data) - 1) /\ data[x] = CR /\ data[x + 1] = LF
      BY <1>2
    <3>2. x \notin from..(e - 1)
      BY <2>1, <3>1
    <3> QED
      BY <1>4, <2>1, <2>3, <3>1, <3>2
  <2> QED
    BY <2>2, <2>3
<1> QED
  BY <1>5, <1>7 DEF e

-----------------------------------------------------------------------------
(* The steps *)

\* The initial states satisfy the invariant.
LEMMA InitIInv == Init => IInv
<1> SUFFICES ASSUME Init PROVE IInv
  OBVIOUS
<1> USE DEF Init
<1>1. data = <<>> /\ data \in Seq(Bytes) /\ Len(data) = 0 /\ msg \in Seq(Bytes)
  BY MessagesAssumption DEF Bytes
<1>2. headers \in Seq(Places \X Places) /\ Len(headers) = 0 /\ DOMAIN headers = {}
  OBVIOUS
<1>3. LFs = {} /\ LineEnds = {}
  BY <1>1 DEF LFs, LineEnds, CRs
<1>4. Types
  BY <1>1, <1>2, BufferAssumption, LimitAssumption DEF Types
<1>5. FieldInv /\ VerdictInv /\ PtrInv
  BY <1>1, <1>3, BufferAssumption DEF FieldInv, VerdictInv, Acted, PtrInv
<1>6. HeadersInv
  BY <1>3 DEF HeadersInv, Clean
<1>7. /\ Lines \in Seq(Nat \X Nat) /\ Len(Lines) \in Nat
      /\ slist \in Seq(Nat \X Nat) /\ Len(slist) = 0 /\ DOMAIN slist = {}
  <2>1. Lines = <<<<0, 0>>>> \o <<>> /\ <<<<0, 0>>>> \in Seq(Nat \X Nat)
    BY DEF Lines
  <2> QED
    BY <2>1
<1>8. SlistInv
  BY <1>7 DEF SlistInv
<1> QED
  BY <1>4, <1>5, <1>6, <1>8 DEF IInv

\* The lines to append, given the headers.
LEMMA LinesFacts ==
  ASSUME NEW h \in Seq(Places \X Places)
  PROVE  /\ <<<<0, 0>>>> \o h \in Seq(Nat \X Nat)
         /\ Len(<<<<0, 0>>>> \o h) = Len(h) + 1
         /\ (<<<<0, 0>>>> \o h)[1] = <<0, 0>>
         /\ \A k \in 1..Len(h) : (<<<<0, 0>>>> \o h)[k + 1] = h[k]
<1> DEFINE P == Nat \X Nat
           o == <<<<0, 0>>>>
<1>1. Places \X Places \subseteq P
  BY DEF Places
<1>2. h \in Seq(P)
  BY <1>1
<1>3. <<0, 0>> \in P
  OBVIOUS
<1> HIDE DEF P
<1>4. o \in Seq(P) /\ Len(o) = 1 /\ o[1] = <<0, 0>>
  BY <1>3
<1> HIDE DEF o
<1>5. /\ o \o h \in Seq(P) /\ Len(o \o h) = Len(h) + 1
      /\ \A i \in 1..(1 + Len(h)) : (o \o h)[i] = IF i <= 1 THEN o[i] ELSE h[i - 1]
  <2>1. /\ o \o h \in Seq(P) /\ Len(o \o h) = Len(o) + Len(h)
        /\ \A i \in 1..(Len(o) + Len(h)) :
             (o \o h)[i] = IF i <= Len(o) THEN o[i] ELSE h[i - Len(o)]
    BY <1>2, <1>4, ConcatProperties
  <2>2. Len(h) \in Nat
    OBVIOUS
  <2> QED
    BY <1>4, <2>1, <2>2
<1>6. (o \o h)[1] = <<0, 0>>
  <2>1. 1 \in 1..(1 + Len(h))
    OBVIOUS
  <2> QED
    BY <1>4, <1>5, <2>1
<1>7. \A k \in 1..Len(h) : (o \o h)[k + 1] = h[k]
  <2> SUFFICES ASSUME NEW k \in 1..Len(h) PROVE (o \o h)[k + 1] = h[k]
    OBVIOUS
  <2>1. k + 1 \in 1..(1 + Len(h)) /\ ~(k + 1 <= 1) /\ (k + 1) - 1 = k
    OBVIOUS
  <2> QED
    BY <1>5, <2>1
<1> QED
  BY <1>5, <1>6, <1>7 DEF o, P

\* What depends on the bytes alone.
LEMMA DataKept ==
  ASSUME data' = data
  PROVE  /\ LFs' = LFs /\ LineEnds' = LineEnds
         /\ Word1' = Word1 /\ Word2' = Word2 /\ Word3' = Word3
         /\ \A i : BareLF(i)' = BareLF(i) /\ Line(i)' = Line(i) /\ LineEnd(i)' = LineEnd(i)
         /\ Clean' = Clean
<1>1. LFs' = LFs /\ CRs' = CRs
  BY DEF LFs, CRs
<1>2. LineEnds' = LineEnds
  BY <1>1 DEF LineEnds
<1>3. \A i : BareLF(i)' = BareLF(i) /\ Line(i)' = Line(i) /\ LineEnd(i)' = LineEnd(i)
  BY <1>2 DEF BareLF, Line, LineEnd
<1>4. \A i, width : WordFrom(i, width)' = WordFrom(i, width)
  BY DEF WordFrom
<1>5. Word1' = Word1 /\ Word2' = Word2 /\ Word3' = Word3
  BY DEF Word1, Word2, Word3, WordFrom
<1>6. Clean' = Clean
  BY <1>1, <1>2 DEF Clean, BareLF
<1> QED
  BY <1>1, <1>2, <1>3, <1>5, <1>6

\* The parser behind a line end.
LEMMA PtrStep ==
  ASSUME Types, PtrInv, LineEnd(ptr) # 0, data' = data, ptr' = LineEnd(ptr) + 2
  PROVE  PtrInv' /\ ptr' \in Nat /\ ptr' >= 1
<1> DEFINE e == LineEnd(ptr)
<1>1. /\ data \in Seq(Bytes) /\ Len(data) \in Nat /\ Len(data) <= BufferLength - 1
      /\ ptr \in Nat /\ ptr >= 1 /\ BufferLength \in Nat
  BY BufferAssumption DEF Types
<1>2. /\ e \in ptr..Len(data)
      /\ \/ /\ e \in ptr..(Len(data) - 1) /\ data[e] = CR /\ data[e + 1] = LF
            /\ \A i \in ptr..(e - 1) : ~(data[i] = CR /\ data[i + 1] = LF)
         \/ /\ data[e] = LF
            /\ \A i \in ptr..(Len(data) - 1) : ~(data[i] = CR /\ data[i + 1] = LF)
  BY <1>1, LineEndFacts
<1> HIDE DEF e
<1>3. ptr' = e + 2
  BY DEF e
<1>4. e + 2 <= Len(data) + 2 /\ e + 2 \in Nat /\ e + 2 >= 1 /\ e \in Nat
  BY <1>1, <1>2
<1>5. ASSUME e + 2 \in 2..Len(data), data[e + 2] = LF PROVE data[e + 1] # CR
  <2>1. CASE data[e + 1] = LF
    BY <2>1 DEF CR, LF
  <2>2. CASE \A i \in ptr..(Len(data) - 1) : ~(data[i] = CR /\ data[i + 1] = LF)
    <3>1. e + 1 \in ptr..(Len(data) - 1) /\ (e + 1) + 1 = e + 2
      BY <1>1, <1>2, <1>5
    <3> QED
      BY <1>5, <2>2, <3>1
  <2> QED
    BY <1>2, <2>1, <2>2
<1>6. ASSUME e + 2 > BufferLength PROVE Len(data) = BufferLength - 1 /\ BareLF(Len(data))
  <2>1. e = Len(data) /\ Len(data) = BufferLength - 1
    BY <1>1, <1>2, <1>6
  <2>2. /\ data[e] = LF
        /\ \A i \in ptr..(Len(data) - 1) : ~(data[i] = CR /\ data[i + 1] = LF)
    BY <1>1, <1>2, <2>1
  <2>3. ASSUME e # 1 PROVE data[e - 1] # CR
    <3>1. CASE e = ptr
      <4>1. ptr \in 2..Len(data)
        BY <1>1, <1>2, <2>3, <3>1
      <4> QED
        BY <2>2, <3>1, <4>1 DEF PtrInv
    <3>2. CASE e # ptr
      <4>1. e - 1 \in ptr..(Len(data) - 1) /\ (e - 1) + 1 = e
        BY <1>1, <1>2, <3>2
      <4> QED
        BY <2>2, <4>1
    <3> QED
      BY <3>1, <3>2
  <2> QED
    BY <2>1, <2>2, <2>3 DEF BareLF
<1>7. ptr' - 1 = e + 1
  BY <1>3, <1>4
<1>8. ptr' <= Len(data') + 2
  BY <1>3, <1>4
<1>9. ptr' > BufferLength => Len(data') = BufferLength - 1 /\ BareLF(Len(data))'
  BY <1>3, <1>6 DEF BareLF
<1>10. ptr' \in 2..Len(data') /\ data'[ptr'] = LF => data'[ptr' - 1] # CR
  BY <1>3, <1>5, <1>7
<1> QED
  BY <1>3, <1>4, <1>8, <1>9, <1>10 DEF PtrInv

\* recv: the fields are still malloc's, and the bytes fit the buffer.
LEMMA RecvIInv == ASSUME IInv, Recv PROVE IInv'
<1>1. Types /\ FieldInv /\ VerdictInv /\ PtrInv /\ HeadersInv /\ SlistInv
  BY DEF IInv
<1>2. PICK n \in 0..Len(msg) : n <= BufferLength - 1 /\ data' = SubSeq(msg, 1, n)
  BY DEF Recv
<1>3. pc = "recv" /\ pc' = "line" /\ UNCHANGED <<msg, memory, lineVars, headers, body, ptr, curlVars>>
  BY DEF Recv
<1>4. UNCHANGED <<method, path, version, slist, appended, lost, sent>>
  BY <1>3 DEF lineVars, curlVars
<1>5. data' \in Seq(Bytes) /\ Len(data') = n
  BY <1>1, <1>2 DEF Types
<1>6. Types'
  BY <1>1, <1>2, <1>3, <1>4, <1>5 DEF Types
<1>7. FieldInv' /\ VerdictInv' /\ HeadersInv'
  BY <1>1, <1>3, <1>4 DEF FieldInv, VerdictInv, Acted, HeadersInv
<1>8. PtrInv'
  BY <1>1, <1>2, <1>3, <1>5, BufferAssumption DEF Types, PtrInv
<1>9. SlistInv'
  BY <1>1, <1>3, <1>4 DEF SlistInv, Lines
<1> QED
  BY <1>6, <1>7, <1>8, <1>9 DEF IInv

\* recv fails: nothing has been received.
LEMMA RecvFailsIInv == ASSUME IInv, RecvFails PROVE IInv'
<1>1. Types /\ FieldInv /\ VerdictInv /\ PtrInv /\ HeadersInv /\ SlistInv
  BY DEF IInv
<1>2. pc = "recv" /\ pc' = "closed" /\ UNCHANGED <<msg, data, memory, headers, body, ptr>>
  BY DEF RecvFails
<1>3. UNCHANGED <<method, path, version, slist, appended, lost, sent>>
  BY DEF RecvFails, lineVars, curlVars
<1>4. Types'
  BY <1>1, <1>2, <1>3 DEF Types
<1>5. data = <<>> /\ LFs = {} /\ LineEnds = {}
  BY <1>1, <1>2 DEF Types, LFs, LineEnds, CRs
<1>6. LFs' = {} /\ LineEnds' = {}
  BY <1>2, <1>5, DataKept
<1>7. FieldInv' /\ VerdictInv'
  BY <1>1, <1>2, <1>3, <1>5, <1>6 DEF FieldInv, VerdictInv, Acted
<1>8. HeadersInv'
  BY <1>6 DEF HeadersInv, Clean
<1>9. PtrInv'
  BY <1>1, <1>2 DEF PtrInv, BareLF
<1>10. SlistInv'
  BY <1>1, <1>2, <1>3 DEF SlistInv, Lines
<1> QED
  BY <1>4, <1>7, <1>8, <1>9, <1>10 DEF IInv

\* The request line: sscanf fills the fields, the parser passes the first line end.
LEMMA ParseLineIInv == ASSUME IInv, ParseLine PROVE IInv'
<1>1. Types /\ FieldInv /\ VerdictInv /\ PtrInv /\ HeadersInv /\ SlistInv
  BY DEF IInv
<1>2. pc = "line" /\ pc' = "headers" /\ UNCHANGED <<msg, data, memory, headers, body>>
  BY DEF ParseLine
<1>3. UNCHANGED <<slist, appended, lost, sent>>
  BY DEF ParseLine, curlVars
<1>4. /\ ptr = 1 /\ headers = <<>> /\ method = Left(memory) /\ path = Left(memory) /\ version = Left(memory)
      /\ data \in Seq(Bytes) /\ Len(data) \in Nat
  BY <1>1, <1>2 DEF Types, FieldInv
<1>5. SlistInv'
  BY <1>1, <1>2, <1>3 DEF SlistInv, Lines
<1>6. VerdictInv'
  BY <1>2 DEF VerdictInv, Acted
<1>7. LFs' = LFs /\ LineEnds' = LineEnds /\ Clean' = Clean
  BY <1>2, DataKept
<1>8. LFs = {i \in 1..Len(data) : data[i] = LF}
  BY <1>4, LineEndsFacts
<1>9. CASE LineEnd(ptr) = 0
  <2>1. UNCHANGED <<method, path, version, ptr>>
    BY <1>9 DEF ParseLine, lineVars
  <2>2. \A i \in 1..Len(data) : data[i] # LF
    BY <1>4, <1>9, LineEndFacts
  <2>3. LFs = {} /\ LineEnds = {}
    BY <1>8, <2>2 DEF LineEnds
  <2>4. Types'
    BY <1>1, <1>2, <1>3, <1>4, <2>1, LimitAssumption DEF Types
  <2>5. FieldInv' /\ HeadersInv'
    BY <1>2, <1>4, <1>7, <2>1, <2>3 DEF FieldInv, HeadersInv, Clean
  <2>6. PtrInv'
    BY <1>1, <1>2, <2>1 DEF PtrInv, BareLF
  <2> QED
    BY <1>5, <1>6, <2>4, <2>5, <2>6 DEF IInv
<1>10. CASE LineEnd(ptr) # 0
  <2>1. /\ method' = Scanned(Word1, Left(memory)) /\ path' = Scanned(Word2, Left(memory))
        /\ version' = Scanned(Word3, Left(memory)) /\ ptr' = LineEnd(ptr) + 2
    BY <1>4, <1>10 DEF ParseLine
  <2>2. PtrInv' /\ ptr' \in Nat /\ ptr' >= 1
    BY <1>1, <1>2, <1>10, <2>1, PtrStep
  <2>3. Types'
    BY <1>1, <1>2, <1>3, <1>4, <2>2, LimitAssumption DEF Types
  <2>4. Word1' = Word1 /\ Word2' = Word2 /\ Word3' = Word3
    BY <1>2, DataKept
  <2>5. LFs # {}
    <3> DEFINE e == LineEnd(ptr)
    <3>1. e \in 1..Len(data) /\ (data[e] = LF \/ (e + 1 \in 1..Len(data) /\ data[e + 1] = LF))
      BY <1>4, <1>10, LineEndFacts
    <3> QED
      BY <1>8, <3>1
  <2>6. FieldInv'
    BY <1>2, <1>7, <2>1, <2>4, <2>5 DEF FieldInv, Scanned
  <2>7. HeadersInv'
    <3> SUFFICES ASSUME Clean PROVE HeadersInv'
      BY <1>7 DEF HeadersInv
    <3> DEFINE e == LineEnd(1)
    <3>1. e \in LineEnds /\ \A x \in LineEnds : x < e => x < 1
      BY <1>4, <1>10, CleanFacts DEF Clean
    <3>2. /\ LineEnds = {i \in 1..(Len(data) - 1) : data[i] = CR /\ data[i + 1] = LF}
          /\ LineEnds \in SUBSET Nat
      BY <1>4, LineEndsFacts
    <3> HIDE DEF e
    <3>3. Least(LineEnds) \in LineEnds /\ \A x \in LineEnds : Least(LineEnds) <= x
      BY <3>1, <3>2, LeastFacts
    <3>4. Least(LineEnds) = e
      BY <1>4, <3>1, <3>2, <3>3
    <3>5. ptr' = e + 2 /\ ptr' - 2 = e
      BY <1>4, <2>1, <3>1, <3>2 DEF e
    <3>6. e + 1 \notin LineEnds
      BY <1>4, <3>1, <3>2 DEF CR, LF
    <3>7. Passed' = {e}
      <4>1. Passed' = {x \in LineEnds : x < e + 2}
        BY <1>7, <3>5 DEF Passed
      <4>2. \A x \in LineEnds : x < e + 2 <=> x = e
        BY <3>1, <3>2, <3>3, <3>4, <3>6
      <4> QED
        BY <3>1, <4>1, <4>2
    <3>8. Ends' = {} /\ Len(headers') = 0 /\ DOMAIN headers' = {}
      BY <1>2, <1>4 DEF Ends
    <3>9. Cardinality(Passed') = Len(headers') + 1
      <4>1. Cardinality({e}) = 1
        BY FS_Singleton
      <4> QED
        BY <3>7, <3>8, <4>1
    <3>10. ptr' - 2 \in LineEnds' /\ Passed' = {Least(LineEnds')} \cup Ends'
      BY <1>7, <3>1, <3>4, <3>5, <3>7, <3>8
    <3> QED
      BY <1>2, <3>8, <3>9, <3>10 DEF HeadersInv
  <2> QED
    BY <1>5, <1>6, <2>2, <2>3, <2>6, <2>7 DEF IInv
<1> QED
  BY <1>9, <1>10

\* One more line, if the request is clean.
LEMMA HeaderFacts ==
  ASSUME IInv, Clean, pc = "headers", LineEnd(ptr) # 0
  PROVE  LET e == LineEnd(ptr) IN
         /\ e \in LineEnds \ {Least(LineEnds)} /\ e >= ptr /\ e \notin Passed
         /\ Line(e) = <<ptr, e>>
         /\ {x \in LineEnds : x < e + 2} = Passed \cup {e}
         /\ Cardinality(Passed \cup {e}) = Len(headers) + 2
         /\ Cardinality(Passed \cup {e}) <= Cardinality(LineEnds)
         /\ Passed = {Least(LineEnds)} \cup Ends
<1> DEFINE e == LineEnd(ptr)
<1>1. /\ data \in Seq(Bytes) /\ Len(data) \in Nat /\ ptr \in Nat /\ ptr >= 1
      /\ ptr \in 2..Len(data) /\ data[ptr] = LF => data[ptr - 1] # CR
  BY DEF IInv, Types, PtrInv
<1>2. /\ ptr - 2 \in LineEnds /\ Passed = {Least(LineEnds)} \cup Ends
      /\ Cardinality(Passed) = Len(headers) + 1
  BY DEF IInv, HeadersInv
<1>3. e \in LineEnds /\ e >= ptr /\ \A x \in LineEnds : x < e => x < ptr
  BY <1>1, CleanFacts DEF Clean
<1>4. /\ LineEnds = {i \in 1..(Len(data) - 1) : data[i] = CR /\ data[i + 1] = LF}
      /\ LineEnds \in SUBSET Nat /\ IsFiniteSet(LineEnds)
  BY <1>1, LineEndsFacts
<1> HIDE DEF e
<1>5. \A x \in LineEnds : x + 1 \notin LineEnds
  BY <1>1, <1>4 DEF CR, LF
<1>6. Least(LineEnds) <= ptr - 2
  BY <1>2, <1>4, LeastFacts
<1>7. Least(LineEnds) \in LineEnds
  BY <1>2, <1>4, LeastFacts
<1>8. e # Least(LineEnds)
  BY <1>1, <1>3, <1>4, <1>6, <1>7
<1>9. e \notin Passed
  BY <1>1, <1>3, <1>4 DEF Passed
<1>10. {p \in LineEnds : p < e} = Passed
  BY <1>1, <1>3, <1>4 DEF Passed
<1>11. ptr - 2 \in Passed /\ \A x \in Passed : x <= ptr - 2
  <2>0. (ptr - 2) + 1 \notin LineEnds
    BY <1>2, <1>5
  <2>1. (ptr - 2) + 1 = ptr - 1 /\ ptr - 1 \notin LineEnds
    <3>1. (ptr - 2) + 1 = ptr - 1
      BY <1>1
    <3> QED
      BY <2>0, <3>1
  <2> QED
    BY <1>1, <1>2, <1>4, <2>1 DEF Passed
<1>12. Greatest(Passed) = ptr - 2
  <2>1. Passed \in SUBSET Nat
    BY <1>4 DEF Passed
  <2>2. Greatest(Passed) \in Passed /\ \A x \in Passed : x <= Greatest(Passed)
    BY <1>11 DEF Greatest
  <2> DEFINE g == Greatest(Passed)
  <2>3. g \in Nat /\ g <= ptr - 2 /\ ptr - 2 <= g
    BY <1>11, <2>1, <2>2
  <2> HIDE DEF g
  <2>4. g = ptr - 2
    BY <1>1, <2>3
  <2> QED
    BY <2>4 DEF g
<1>13. Line(e) = <<ptr, e>>
  <2>1. e # 0 /\ (ptr - 2) + 2 = ptr
    BY <1>1, <1>3, <1>4
  <2> QED
    BY <1>10, <1>12, <2>1 DEF Line
<1>14. {x \in LineEnds : x < e + 2} = Passed \cup {e}
  <2>1. e + 1 \notin LineEnds
    BY <1>3, <1>5
  <2>2. \A x \in LineEnds : x < e + 2 <=> x < ptr \/ x = e
    BY <1>1, <1>3, <1>4, <2>1
  <2> QED
    BY <1>3, <2>2 DEF Passed
<1>15. IsFiniteSet(Passed) /\ Passed \cup {e} \in SUBSET LineEnds
  <2>1. Passed \in SUBSET LineEnds
    BY DEF Passed
  <2> QED
    BY <1>3, <1>4, <2>1, FS_Subset
<1>16. Cardinality(Passed \cup {e}) = Cardinality(Passed) + 1
  BY <1>9, <1>15, FS_AddElement
<1>17. Cardinality(Passed \cup {e}) = Len(headers) + 2
  <2>1. Len(headers) \in Nat
    BY DEF IInv, Types
  <2> QED
    BY <1>2, <1>16, <2>1
<1>18. Cardinality(Passed \cup {e}) <= Cardinality(LineEnds)
  BY <1>4, <1>15, FS_Subset
<1> QED
  BY <1>2, <1>3, <1>8, <1>9, <1>13, <1>14, <1>17, <1>18 DEF e

\* A header line: the parser passes one line end and copies the line before it.
LEMMA ParseHeaderIInv == ASSUME IInv, ParseHeader PROVE IInv'
<1> DEFINE e == LineEnd(ptr)
<1>1. Types /\ FieldInv /\ VerdictInv /\ PtrInv /\ HeadersInv /\ SlistInv
  BY DEF IInv
<1>2. /\ pc = "headers" /\ e # 0 /\ headers' = Append(headers, <<ptr, e>>)
      /\ UNCHANGED <<msg, data, memory, body>>
  BY DEF ParseHeader
<1>3. UNCHANGED <<slist, appended, lost, sent, method, path, version>>
  BY DEF ParseHeader, curlVars, lineVars
<1>4. /\ data \in Seq(Bytes) /\ Len(data) \in Nat /\ Len(data) <= BufferLength - 1
      /\ ptr \in Nat /\ ptr >= 1 /\ BufferLength \in Nat
      /\ headers \in Seq(Places \X Places) /\ Len(headers) \in Nat /\ Len(headers) < HeaderLimit
  BY <1>1, <1>2, BufferAssumption DEF Types
<1>5. e \in ptr..Len(data)
  BY <1>2, <1>4, LineEndFacts
<1>6. \/ Len(headers) + 1 >= HeaderLimit /\ pc' = "body" /\ ptr' = ptr
      \/ Len(headers) + 1 < HeaderLimit /\ pc' = "headers" /\ ptr' = e + 2
  BY <1>2, <1>4, LimitAssumption DEF ParseHeader
<1>7. LFs' = LFs /\ LineEnds' = LineEnds /\ Clean' = Clean
      /\ Word1' = Word1 /\ Word2' = Word2 /\ Word3' = Word3
      /\ \A i : Line(i)' = Line(i) /\ BareLF(i)' = BareLF(i)
  BY <1>2, DataKept
<1>8. /\ headers' \in Seq(Places \X Places) /\ Len(headers') = Len(headers) + 1
      /\ \A k \in 1..Len(headers) : headers'[k] = headers[k]
      /\ headers'[Len(headers) + 1] = <<ptr, e>>
  <2>1. <<ptr, e>> \in Places \X Places
    BY <1>4, <1>5 DEF Places
  <2> QED
    BY <1>2, <1>4, <2>1
<1>9. PtrInv' /\ ptr' \in Nat /\ ptr' >= 1
  <2>1. CASE ptr' = ptr
    BY <1>1, <1>2, <1>4, <2>1 DEF PtrInv, BareLF
  <2>2. CASE ptr' = e + 2
    BY <1>1, <1>2, <2>2, PtrStep
  <2> QED
    BY <1>6, <2>1, <2>2
<1>10. Types'
  BY <1>1, <1>2, <1>3, <1>4, <1>6, <1>8, <1>9, LimitAssumption DEF Types
<1>11. FieldInv'
  BY <1>1, <1>2, <1>3, <1>6, <1>7 DEF FieldInv, Scanned
<1>12. VerdictInv'
  BY <1>6 DEF VerdictInv, Acted
<1>13. SlistInv'
  <2>1. Lines' \in Seq(Nat \X Nat)
    BY <1>8, LinesFacts DEF Lines
  <2>2. appended = 0 /\ lost = FALSE /\ slist \in Seq(Nat \X Nat) /\ Len(slist) = 0
    BY <1>1, <1>2 DEF SlistInv
  <2>3. Len(Lines') \in Nat /\ DOMAIN slist = {}
    BY <2>1, <2>2
  <2> QED
    BY <1>3, <1>6, <2>2, <2>3 DEF SlistInv
<1>14. HeadersInv'
  <2> SUFFICES ASSUME Clean PROVE HeadersInv'
    BY <1>7 DEF HeadersInv
  <2>1. /\ e \in LineEnds \ {Least(LineEnds)} /\ e >= ptr /\ e \notin Passed
        /\ Line(e) = <<ptr, e>>
        /\ {x \in LineEnds : x < e + 2} = Passed \cup {e}
        /\ Cardinality(Passed \cup {e}) = Len(headers) + 2
        /\ Cardinality(Passed \cup {e}) <= Cardinality(LineEnds)
        /\ Passed = {Least(LineEnds)} \cup Ends
    BY <1>2, HeaderFacts
  <2>2. /\ \A k \in DOMAIN headers :
             headers[k][2] \in LineEnds \ {Least(LineEnds)} /\ headers[k] = Line(headers[k][2])
        /\ \A j, k \in DOMAIN headers : j < k => headers[j][2] < headers[k][2]
    BY <1>1, <1>2 DEF HeadersInv
  <2> HIDE DEF e
  <2>3. DOMAIN headers = 1..Len(headers) /\ DOMAIN headers' = 1..(Len(headers) + 1)
    BY <1>4, <1>8
  <2>4. headers'[Len(headers) + 1][2] = e
    BY <1>8
  <2>5. \A k \in DOMAIN headers' : k \in DOMAIN headers \/ k = Len(headers) + 1
    BY <1>4, <2>3
  <2>6. \A k \in DOMAIN headers' :
          headers'[k][2] \in LineEnds \ {Least(LineEnds)} /\ headers'[k] = Line(headers'[k][2])
    BY <1>8, <2>1, <2>2, <2>3, <2>4, <2>5
  <2>7. \A k \in DOMAIN headers : headers[k][2] < e
    <3>1. \A k \in DOMAIN headers : headers[k][2] \in Passed
      BY <2>1 DEF Ends
    <3>2. \A x \in Passed : x \in Nat /\ x < ptr
      BY <1>4, LineEndsFacts DEF Passed
    <3> QED
      BY <1>4, <1>5, <3>1, <3>2
  <2>8. \A j, k \in DOMAIN headers' : j < k => headers'[j][2] < headers'[k][2]
    <3> SUFFICES ASSUME NEW j \in DOMAIN headers', NEW k \in DOMAIN headers', j < k
                 PROVE  headers'[j][2] < headers'[k][2]
      OBVIOUS
    <3>1. j \in DOMAIN headers
      BY <1>4, <2>3
    <3>2. CASE k \in DOMAIN headers
      BY <1>8, <2>2, <2>3, <3>1, <3>2
    <3>3. CASE k = Len(headers) + 1
      BY <1>8, <2>3, <2>4, <2>7, <3>1, <3>3
    <3> QED
      BY <2>5, <3>2, <3>3
  <2>9. Ends' = Ends \cup {e}
    <3>1. \A k \in DOMAIN headers : headers'[k][2] = headers[k][2] /\ k \in DOMAIN headers'
      BY <1>4, <1>8, <2>3
    <3>2. Len(headers) + 1 \in DOMAIN headers'
      BY <1>4, <2>3
    <3> QED
      BY <2>4, <2>5, <3>1, <3>2 DEF Ends
  <2>10. CASE pc' = "headers" /\ ptr' = e + 2
    <3>1. Passed' = Passed \cup {e}
      BY <1>7, <2>1, <2>10 DEF Passed
    <3>2. Passed' = {Least(LineEnds')} \cup Ends'
      BY <1>7, <2>1, <2>9, <3>1
    <3>3. Cardinality(Passed') = Len(headers') + 1
      BY <1>4, <1>8, <2>1, <3>1
    <3>4. ptr' - 2 \in LineEnds'
      BY <1>4, <1>5, <1>7, <2>1, <2>10
    <3> QED
      BY <1>7, <2>6, <2>8, <2>10, <3>2, <3>3, <3>4 DEF HeadersInv
  <2>11. CASE pc' = "body" /\ Len(headers) + 1 >= HeaderLimit
    <3>1. ~(Cardinality(LineEnds) <= HeaderLimit)
      <4>1. Cardinality(LineEnds) \in Nat
        BY <1>4, LineEndsFacts, FS_CardinalityType
      <4> QED
        BY <1>4, <2>1, <2>11, <4>1, LimitAssumption
    <3> QED
      BY <1>7, <2>6, <2>8, <2>11, <3>1 DEF HeadersInv
  <2> QED
    BY <1>6, <2>10, <2>11
<1> QED
  BY <1>9, <1>10, <1>11, <1>12, <1>13, <1>14 DEF IInv

\* What the steps behind the headers leave alone.
LEMMA Behind ==
  ASSUME IInv, UNCHANGED <<msg, data, memory, method, path, version, headers, ptr>>,
         pc \notin {"recv", "line"},
         pc = "headers" => LineEnd(ptr) = 0,
         pc' \in {"body", "validate", "slist", "perform", "sent", "failed", "closed"}
  PROVE  FieldInv' /\ PtrInv' /\ HeadersInv' /\ Valid' = Valid /\ Lines' = Lines
<1>1. Types /\ FieldInv /\ PtrInv /\ HeadersInv
  BY DEF IInv
<1>2. LFs' = LFs /\ LineEnds' = LineEnds /\ Clean' = Clean
      /\ Word1' = Word1 /\ Word2' = Word2 /\ Word3' = Word3
      /\ \A i : Line(i)' = Line(i)
  BY DataKept
<1>3. FieldInv'
  BY <1>1, <1>2 DEF FieldInv, Scanned
<1>4. PtrInv' /\ Valid' = Valid /\ Lines' = Lines
  BY <1>1 DEF PtrInv, BareLF, Valid, Content, Lines
<1>5. Passed' = Passed /\ Ends' = Ends
  BY <1>2 DEF Passed, Ends
<1>6. ASSUME pc # "headers" PROVE HeadersInv'
  <2>1. headers' = headers /\ ptr' = ptr
    OBVIOUS
  <2> QED
    BY <1>1, <1>2, <1>5, <1>6, <2>1 DEF HeadersInv
<1>7. ASSUME pc = "headers" PROVE HeadersInv'
  <2> SUFFICES ASSUME Clean PROVE HeadersInv'
    BY <1>2 DEF HeadersInv
  <2>1. \A x \in LineEnds : x < ptr
    BY <1>1, <1>7, CleanFacts DEF Types, PtrInv, Clean
  <2>2. Passed = LineEnds
    BY <2>1 DEF Passed
  <2>3. headers' = headers /\ ptr' = ptr
    OBVIOUS
  <2> QED
    BY <1>1, <1>2, <1>5, <1>7, <2>2, <2>3 DEF HeadersInv
<1> QED
  BY <1>3, <1>4, <1>6, <1>7

\* No line end is left, or no place for a header.
LEMMA EndHeadersIInv == ASSUME IInv, EndHeaders PROVE IInv'
<1>1. Types /\ VerdictInv /\ SlistInv
  BY DEF IInv
<1>2. pc = "headers" /\ LineEnd(ptr) = 0 /\ pc' = "body"
      /\ UNCHANGED <<msg, data, memory, headers, body, ptr>>
  BY DEF EndHeaders
<1>3. UNCHANGED <<slist, appended, lost, sent, method, path, version>>
  BY DEF EndHeaders, curlVars, lineVars
<1>4. FieldInv' /\ PtrInv' /\ HeadersInv' /\ Lines' = Lines
  BY <1>2, <1>3, Behind
<1>5. Types'
  BY <1>1, <1>2, <1>3 DEF Types
<1>6. VerdictInv' /\ SlistInv'
  BY <1>1, <1>2, <1>3, <1>4 DEF VerdictInv, Acted, SlistInv
<1> QED
  BY <1>4, <1>5, <1>6 DEF IInv

\* The body is what lies behind the last line end passed.
LEMMA ParseBodyIInv == ASSUME IInv, ParseBody PROVE IInv'
<1>1. Types /\ VerdictInv /\ SlistInv
  BY DEF IInv
<1>2. /\ pc = "body" /\ pc' = "validate" /\ body' = IF ptr <= Len(data) THEN ptr ELSE JUNK
      /\ UNCHANGED <<msg, data, memory, headers, ptr>>
  BY DEF ParseBody
<1>3. UNCHANGED <<slist, appended, lost, sent, method, path, version>>
  BY DEF ParseBody, curlVars, lineVars
<1>4. FieldInv' /\ PtrInv' /\ HeadersInv' /\ Lines' = Lines
  BY <1>2, <1>3, Behind
<1>5. Types'
  BY <1>1, <1>2, <1>3 DEF Types
<1>6. VerdictInv' /\ SlistInv'
  BY <1>1, <1>2, <1>3, <1>4 DEF VerdictInv, Acted, SlistInv
<1> QED
  BY <1>4, <1>5, <1>6 DEF IInv

\* The verdict is that of the fields as they are.
LEMMA ValidateIInv == ASSUME IInv, Validate PROVE IInv'
<1>1. Types /\ VerdictInv /\ SlistInv
  BY DEF IInv
<1>2. /\ pc = "validate" /\ pc' = IF Valid THEN "slist" ELSE "closed"
      /\ UNCHANGED <<msg, data, memory, headers, body, ptr>>
  BY DEF Validate, Valid
<1>3. UNCHANGED <<slist, appended, lost, sent, method, path, version>>
  BY DEF Validate, curlVars, lineVars
<1>4. FieldInv' /\ PtrInv' /\ HeadersInv' /\ Lines' = Lines /\ Valid' = Valid
  BY <1>2, <1>3, Behind
<1>5. Types'
  BY <1>1, <1>2, <1>3 DEF Types
<1>6. VerdictInv'
  BY <1>2, <1>4 DEF VerdictInv, Acted
<1>7. SlistInv'
  <2>1. Len(Lines) \in Nat /\ Len(Lines) > 0
    BY <1>1, LinesFacts DEF Types, Lines
  <2> QED
    BY <1>1, <1>2, <1>3, <1>4, <2>1 DEF SlistInv
<1> QED
  BY <1>4, <1>5, <1>6, <1>7 DEF IInv

\* curl_slist_append puts the next line at the end of the list.
LEMMA AppendHeaderIInv == ASSUME IInv, AppendHeader PROVE IInv'
<1>1. Types /\ VerdictInv /\ SlistInv
  BY DEF IInv
<1>2. /\ pc = "slist" /\ pc' = IF appended + 1 = Len(Lines) THEN "perform" ELSE "slist"
      /\ slist' = Append(slist, Lines[appended + 1]) /\ appended' = appended + 1
      /\ UNCHANGED <<msg, data, memory, headers, body, ptr, lost, sent>>
  BY DEF AppendHeader
<1>3. UNCHANGED <<method, path, version>>
  BY DEF AppendHeader, lineVars
<1>4. FieldInv' /\ PtrInv' /\ HeadersInv' /\ Lines' = Lines /\ Valid' = Valid
  BY <1>2, <1>3, Behind
<1>5. Types'
  BY <1>1, <1>2, <1>3 DEF Types
<1>6. VerdictInv'
  BY <1>1, <1>2, <1>4 DEF VerdictInv, Acted
<1>7. SlistInv'
  <2>1. Lines \in Seq(Nat \X Nat) /\ Len(Lines) \in Nat
    BY <1>1, LinesFacts DEF Types, Lines
  <2>2. /\ slist \in Seq(Nat \X Nat) /\ Len(slist) \in Nat /\ appended \in Nat
        /\ appended < Len(Lines) /\ Len(slist) <= appended
        /\ \A k \in 1..Len(slist) : slist[k] = Lines[appended - Len(slist) + k]
        /\ ~lost => Len(slist) = appended
    BY <1>1, <1>2, SMTT(20) DEF SlistInv
  <2>3. Lines[appended + 1] \in Nat \X Nat
    BY <2>1, <2>2
  <2>4. /\ slist' \in Seq(Nat \X Nat) /\ Len(slist') = Len(slist) + 1
        /\ \A k \in 1..Len(slist) : slist'[k] = slist[k]
        /\ slist'[Len(slist) + 1] = Lines[appended + 1]
        /\ DOMAIN slist' = 1..(Len(slist) + 1)
    BY <1>2, <2>2, <2>3
  <2>5. appended' - Len(slist') = appended - Len(slist)
    BY <1>2, <2>2, <2>4
  <2>6. \A k \in DOMAIN slist' : slist'[k] = Lines[appended' - Len(slist') + k]
    <3> SUFFICES ASSUME NEW k \in 1..(Len(slist) + 1)
                 PROVE  slist'[k] = Lines[appended - Len(slist) + k]
      BY <2>4, <2>5
    <3>1. CASE k \in 1..Len(slist)
      BY <2>2, <2>4, <3>1
    <3>2. CASE k = Len(slist) + 1
      <4>1. appended - Len(slist) + k = appended + 1
        BY <2>2, <3>2
      <4> QED
        BY <2>4, <3>2, <4>1
    <3> QED
      BY <2>2, <3>1, <3>2
  <2>7. appended' \in 0..Len(Lines) /\ Len(slist') <= appended' /\ (~lost => Len(slist') = appended')
    BY <1>2, <2>1, <2>2, <2>4
  <2>8. pc' = "slist" => appended' < Len(Lines)
    BY <1>2, <2>1, <2>2
  <2>9. pc' = "perform" => appended' = Len(Lines)
    BY <1>2, <2>1, <2>2
  <2> QED
    BY <1>2, <1>4, <2>4, <2>6, <2>7, <2>8, <2>9 DEF SlistInv
<1> QED
  BY <1>4, <1>5, <1>6, <1>7 DEF IInv

\* curl_slist_append fails: the list is NULL, and what comes later starts anew.
LEMMA AppendFailsIInv == ASSUME IInv, AppendFails PROVE IInv'
<1>1. Types /\ VerdictInv /\ SlistInv
  BY DEF IInv
<1>2. /\ pc = "slist"
      /\ pc' = IF appended = 0 THEN "failed"
               ELSE IF appended + 1 = Len(Lines) THEN "perform" ELSE "slist"
      /\ slist' = <<>> /\ lost' = TRUE /\ appended' = appended + 1
      /\ UNCHANGED <<msg, data, memory, headers, body, ptr, sent>>
  BY DEF AppendFails
<1>3. UNCHANGED <<method, path, version>>
  BY DEF AppendFails, lineVars
<1>4. FieldInv' /\ PtrInv' /\ HeadersInv' /\ Lines' = Lines /\ Valid' = Valid
  BY <1>2, <1>3, Behind
<1>5. Types'
  BY <1>1, <1>2, <1>3 DEF Types
<1>6. VerdictInv'
  BY <1>1, <1>2, <1>4 DEF VerdictInv, Acted
<1>7. SlistInv'
  <2>1. Len(Lines) \in Nat /\ appended \in Nat /\ appended < Len(Lines)
    BY <1>1, <1>2, LinesFacts DEF Types, Lines, SlistInv
  <2>2. slist' \in Seq(Nat \X Nat) /\ Len(slist') = 0 /\ DOMAIN slist' = {}
    BY <1>2
  <2> QED
    BY <1>2, <1>4, <2>1, <2>2 DEF SlistInv
<1> QED
  BY <1>4, <1>5, <1>6, <1>7 DEF IInv

\* What curl_easy_perform sends is what the steps before have left.
LEMMA PerformIInv == ASSUME IInv, Perform PROVE IInv'
<1>1. Types /\ VerdictInv /\ SlistInv
  BY DEF IInv
<1>2. /\ pc = "perform" /\ pc' = "sent"
      /\ UNCHANGED <<msg, data, memory, headers, body, ptr, slist, appended, lost>>
  BY DEF Perform
<1>3. UNCHANGED <<method, path, version>>
  BY DEF Perform, lineVars
<1>4. FieldInv' /\ PtrInv' /\ HeadersInv' /\ Lines' = Lines /\ Valid' = Valid
  BY <1>2, <1>3, Behind
<1>5. sent'[1] \in {POST, PUT} => sent'[2] = body'
  BY <1>2 DEF Perform, POST, PUT, DELETE, GET
<1>6. Types'
  BY <1>1, <1>2, <1>3, <1>5 DEF Types
<1>7. VerdictInv' /\ SlistInv'
  BY <1>1, <1>2, <1>4 DEF VerdictInv, Acted, SlistInv
<1> QED
  BY <1>4, <1>6, <1>7 DEF IInv

\* Every step preserves the invariant.
LEMMA NextIInv == IInv /\ [Next]_vars => IInv'
<1> SUFFICES ASSUME IInv, [Next]_vars PROVE IInv'
  OBVIOUS
<1>1. CASE UNCHANGED vars
  <2>1. UNCHANGED <<msg, data, memory, method, path, version, headers, body, ptr,
                    slist, appended, lost, sent, pc>>
    BY <1>1 DEF vars, lineVars, curlVars
  <2>2. Types' /\ FieldInv'
    BY <2>1, DataKept DEF IInv, Types, FieldInv, Scanned
  <2>3. VerdictInv' /\ PtrInv' /\ SlistInv'
    BY <2>1 DEF IInv, VerdictInv, Acted, Valid, Content, PtrInv, BareLF, SlistInv, Lines
  <2>4. HeadersInv'
    <3>1. LineEnds' = LineEnds /\ Clean' = Clean /\ \A i : Line(i)' = Line(i)
      BY <2>1, DataKept
    <3>2. Passed' = Passed /\ Ends' = Ends
      BY <2>1, <3>1 DEF Passed, Ends
    <3> QED
      BY <2>1, <3>1, <3>2 DEF IInv, HeadersInv
  <2> QED
    BY <2>2, <2>3, <2>4 DEF IInv
<1>2. CASE Next /\ ~Over
  BY <1>2, RecvIInv, RecvFailsIInv, ParseLineIInv, ParseHeaderIInv, EndHeadersIInv, ParseBodyIInv,
     ValidateIInv, AppendHeaderIInv, AppendFailsIInv, PerformIInv DEF Next
<1> QED
  BY <1>1, <1>2 DEF Over

\* The invariant holds in every state of a request.
THEOREM Invariance == Spec => []IInv
<1> QED
  BY InitIInv, NextIInv, PTL DEF Spec

\* The fields are places of the data, or malloc's.
LEMMA FieldFacts ==
  ASSUME IInv
  PROVE  \A field \in {method, path, version} :
           field \in {Left(OLD), None} \cup (1..Len(data)) \X (1..Len(data))
<1>1. data \in Seq(Bytes) /\ Len(data) \in Nat /\ Left(memory) \in {Left(OLD), None} /\ FieldInv
  BY DEF IInv, Types, None
<1>2. \A w \in {Word1, Word2, Word3} : w = None \/ w \in (1..Len(data)) \X (1..Len(data))
  BY <1>1, WordFacts
<1>3. \A w \in {Word1, Word2, Word3} :
        Scanned(w, Left(memory)) \in {Left(OLD), None} \cup (1..Len(data)) \X (1..Len(data))
  BY <1>1, <1>2 DEF Scanned
<1> QED
  BY <1>1, <1>3 DEF FieldInv

\* http_utils.c: the parser stays inside request_buf, for any size of it, unless
\* the bytes received fill it and end in a bare LF.
THEOREM StaysInBuffer == Spec => []InBuffer
<1>1. IInv => InBuffer
  <2> SUFFICES ASSUME IInv PROVE InBuffer
    OBVIOUS
  <2>1. body \in 0..Len(data)
    BY DEF IInv, Types, JUNK
  <2>2. TypeOK
    BY <2>1, FieldFacts DEF TypeOK, IInv, Types, Places
  <2> QED
    BY <2>2 DEF InBuffer, IInv, PtrInv
<1> QED
  BY <1>1, Invariance, PTL

\* http_utils.c: the handler acts on the words of a complete request line that fit
\* their fields, and otherwise on consecutive parts of the client's bytes or on
\* what malloc's block held.
THEOREM ActsOnOwn == Spec => []OwnRequest
<1>1. IInv => OwnRequest
  <2> SUFFICES ASSUME IInv PROVE OwnRequest
    OBVIOUS
  <2>1. data \in Seq(Bytes) /\ Len(data) \in Nat /\ memory \in {JUNK, OLD} /\ FieldInv /\ VerdictInv
    BY DEF IInv, Types
  <2>2. /\ \A w \in {Word1, Word2, Word3} : w = None \/ w \in (1..Len(data)) \X (1..Len(data))
        /\ Word3 # None => Word2 # None /\ Word1 # None /\ Covers(Word1, Word2, Word3)
    BY <2>1, WordFacts
  <2>3. ASSUME NEW w \in (1..Len(data)) \X (1..Len(data)), NEW old
        PROVE  Content(w, old) = SubSeq(data, w[1], w[2])
    <3>1. w[1] >= 1
      BY <2>1
    <3>2. w # Left(OLD) /\ w # None
      BY <3>1 DEF Left, None, OLD, JUNK
    <3> QED
      BY <3>2 DEF Content
  <2>4. Content(None, Version) # <<Version>>
    <3>1. None # Left(OLD)
      BY DEF None, Left, JUNK, OLD
    <3> QED
      BY <3>1 DEF Content
  <2>5. ASSUME Word3 # None, LFs # {}, pc \notin {"recv", "line"}
        PROVE  /\ method = Word1 /\ path = Word2 /\ version = Word3
               /\ Content(version, Version) = SubSeq(data, Word3[1], Word3[2])
               /\ Content(path, Path) = SubSeq(data, Word2[1], Word2[2])
    <3>1. method = Word1 /\ path = Word2 /\ version = Word3
      BY <2>1, <2>2, <2>5 DEF FieldInv, Scanned
    <3>2. Word2 \in (1..Len(data)) \X (1..Len(data)) /\ Word3 \in (1..Len(data)) \X (1..Len(data))
      BY <2>2, <2>5
    <3> QED
      BY <2>3, <3>1, <3>2
  <2>6. ASSUME Acted, memory = JUNK
        PROVE  /\ LFs # {} /\ method[1] >= 1 /\ Covers(method, path, version)
               /\ SubSeq(data, version[1], version[2]) = <<Version>>
    <3>1. pc \notin {"recv", "line"} /\ Content(version, Version) = <<Version>>
      BY <2>1, <2>6 DEF Acted, VerdictInv, Valid
    <3>2. version # None
      BY <2>4, <3>1
    <3>3. LFs # {} /\ Word3 # None
      BY <2>1, <2>6, <3>1, <3>2 DEF FieldInv, Scanned, None
    <3>4. Word1[1] >= 1
      BY <2>1, <2>2, <3>3
    <3> QED
      BY <2>2, <2>5, <3>1, <3>3, <3>4
  <2>7. ASSUME NEW a \in AllWords, NEW b \in AllWords, NEW c \in AllWords, Complete(a, b, c),
               pc \notin {"recv", "line"}
        PROVE  /\ method = a /\ path = b /\ version = c
               /\ Content(version, Version) = SubSeq(data, c[1], c[2])
               /\ Content(path, Path) = SubSeq(data, b[1], b[2])
    <3>1. Word1 = a /\ Word2 = b /\ Word3 = c
      BY <2>1, <2>7, CompleteFacts
    <3>2. Word3 # None /\ LFs # {}
      <4>1. c[1] \in 1..Len(data)
        BY DEF AllWords
      <4> QED
        BY <2>1, <2>7, <3>1, <4>1 DEF None, Left, JUNK, Complete
    <3> QED
      BY <2>5, <2>7, <3>1, <3>2
  <2>8. ASSUME NEW a \in AllWords, NEW b \in AllWords, NEW c \in AllWords, Complete(a, b, c), Acted
        PROVE  <<method, path, version>> = <<a, b, c>>
    BY <2>7, <2>8 DEF Acted
  <2>9. ASSUME NEW a \in AllWords, NEW b \in AllWords, NEW c \in AllWords, Complete(a, b, c), pc = "closed"
        PROVE  SubSeq(data, c[1], c[2]) # <<Version>> \/ SubSeq(data, b[1], b[2]) = <<Blocked>>
    <3>1. data # <<>>
      BY <2>9 DEF Complete, LFs
    <3>2. ~Valid
      BY <2>1, <2>9, <3>1 DEF VerdictInv
    <3> QED
      BY <2>7, <2>9, <3>2 DEF Valid
  <2> QED
    BY <2>6, <2>8, <2>9 DEF OwnRequest, Acted
<1> QED
  BY <1>1, Invariance, PTL

\* http_utils.c: libcurl is given each header line once and in order, and the
\* body, for any message whose lines end in CRLF and fit the loop's limit.
THEOREM HeadersForwarded == Spec => []Forwarded
<1>1. IInv => Forwarded
  <2> DEFINE lines == {0} \cup (LineEnds \ {Least(LineEnds)})
             given == {slist[k][2] : k \in DOMAIN slist}
             behind == Greatest(LineEnds) + 2
  <2> SUFFICES ASSUME IInv, pc = "sent", \A i \in LFs : ~BareLF(i),
                      Cardinality(LineEnds) \in 1..HeaderLimit
               PROVE  /\ \A k \in DOMAIN slist : slist[k][2] \in lines /\ slist[k] = Line(slist[k][2])
                      /\ \A j, k \in DOMAIN slist : j < k => slist[j][2] < slist[k][2]
                      /\ \A k \in DOMAIN slist, e \in lines : slist[k][2] < e => e \in given
                      /\ ~lost => given = lines
                      /\ sent[1] \in {POST, PUT} =>
                           sent[2] = IF behind <= Len(data) THEN behind ELSE JUNK
    BY DEF Forwarded
  <2>1. data \in Seq(Bytes) /\ ptr \in Nat /\ headers \in Seq(Places \X Places) /\ Len(headers) \in Nat
    BY DEF IInv, Types
  <2>2. /\ LineEnds = {i \in 1..(Len(data) - 1) : data[i] = CR /\ data[i + 1] = LF}
        /\ LineEnds \in SUBSET Nat
    BY <2>1, LineEndsFacts
  <2>3. Clean /\ Cardinality(LineEnds) <= HeaderLimit
    <3>1. Cardinality(LineEnds) # 0 /\ Cardinality(LineEnds) <= HeaderLimit
      BY LimitAssumption
    <3>2. LineEnds # {}
      BY <3>1, FS_EmptySet
    <3> QED
      BY <3>1, <3>2 DEF Clean
  <2>4. /\ \A k \in 1..Len(headers) :
             headers[k][2] \in LineEnds \ {Least(LineEnds)} /\ headers[k] = Line(headers[k][2])
        /\ \A j, k \in 1..Len(headers) : j < k => headers[j][2] < headers[k][2]
        /\ ptr - 2 \in LineEnds /\ Passed = {Least(LineEnds)} \cup Ends
        /\ Passed = LineEnds
    BY <2>1, <2>3 DEF IInv, HeadersInv
  <2>5. Ends = {headers[k][2] : k \in 1..Len(headers)}
    BY <2>1 DEF Ends
  <2>6. lines = {0} \cup Ends
    BY <2>4, <2>5
  <2> DEFINE N == Len(Lines)
  <2>7. /\ N = Len(headers) + 1 /\ Lines[1] = <<0, 0>>
        /\ \A k \in 1..Len(headers) : Lines[k + 1] = headers[k]
    BY <2>1, LinesFacts DEF Lines
  <2> HIDE DEF N
  <2>8. \A j \in 1..N : j = 1 \/ (j - 1 \in 1..Len(headers) /\ Lines[j] = headers[j - 1])
    <3> SUFFICES ASSUME NEW j \in 1..N, j # 1
                 PROVE  j - 1 \in 1..Len(headers) /\ Lines[j] = headers[j - 1]
      OBVIOUS
    <3>1. j - 1 \in 1..Len(headers) /\ (j - 1) + 1 = j
      BY <2>1, <2>7
    <3> QED
      BY <2>7, <3>1
  <2> HIDE DEF lines, given, behind
  <2>9. \A j \in 1..N : Lines[j][2] \in lines /\ Lines[j] = Line(Lines[j][2])
    <3> SUFFICES ASSUME NEW j \in 1..N PROVE Lines[j][2] \in lines /\ Lines[j] = Line(Lines[j][2])
      OBVIOUS
    <3>1. CASE j = 1
      <4>1. Lines[j][2] = 0
        BY <2>7, <3>1
      <4> QED
        BY <2>7, <3>1, <4>1 DEF Line, lines
    <3>2. CASE j # 1
      BY <2>4, <2>8, <3>2 DEF lines
    <3> QED
      BY <3>1, <3>2
  <2>10. \A i, j \in 1..N : i < j => Lines[i][2] < Lines[j][2]
    <3> SUFFICES ASSUME NEW i \in 1..N, NEW j \in 1..N, i < j PROVE Lines[i][2] < Lines[j][2]
      OBVIOUS
    <3>1. j # 1 /\ j - 1 \in 1..Len(headers) /\ Lines[j] = headers[j - 1]
      BY <2>8
    <3>2. Lines[j][2] \in Nat /\ Lines[j][2] > 0
      <4>1. Lines[j][2] \in LineEnds
        BY <2>4, <3>1
      <4>2. \A x \in LineEnds : x \in Nat /\ x > 0
        BY <2>2
      <4> QED
        BY <4>1, <4>2
    <3>3. CASE i = 1
      <4>1. Lines[i][2] = 0
        BY <2>7, <3>3
      <4> QED
        BY <3>2, <4>1
    <3>4. CASE i # 1
      <4>1. i - 1 \in 1..Len(headers) /\ Lines[i] = headers[i - 1] /\ i - 1 < j - 1
        BY <2>8, <3>4
      <4> QED
        BY <2>4, <3>1, <4>1
    <3> QED
      BY <3>3, <3>4
  <2>11. \A e \in lines : \E j \in 1..N : Lines[j][2] = e
    <3> SUFFICES ASSUME NEW e \in lines PROVE \E j \in 1..N : Lines[j][2] = e
      OBVIOUS
    <3>1. CASE e = 0
      <4>1. 1 \in 1..N /\ Lines[1][2] = 0
        BY <2>1, <2>7
      <4> QED
        BY <3>1, <4>1
    <3>2. CASE e # 0
      <4>1. PICK k \in 1..Len(headers) : headers[k][2] = e
        BY <2>5, <2>6, <3>2
      <4>2. k + 1 \in 1..N /\ Lines[k + 1] = headers[k]
        BY <2>1, <2>7
      <4> QED
        BY <4>1, <4>2
    <3> QED
      BY <3>1, <3>2
  <2> DEFINE m == Len(slist)
             d == N - m
  <2>12. /\ m \in Nat /\ N \in Nat /\ m <= N /\ DOMAIN slist = 1..m
         /\ \A k \in 1..m : slist[k] = Lines[d + k]
         /\ ~lost => m = N
    <3>1. /\ slist \in Seq(Nat \X Nat) /\ appended = N /\ m <= appended
          /\ \A k \in DOMAIN slist : slist[k] = Lines[appended - m + k]
          /\ ~lost => m = appended
      BY DEF IInv, SlistInv, N
    <3> QED
      BY <2>1, <2>7, <3>1
  <2> HIDE DEF m
  <2>13. d \in Nat /\ \A k \in 1..m : d + k \in 1..N
    BY <2>12
  <2> HIDE DEF d
  <2>14. \A k \in DOMAIN slist : slist[k][2] \in lines /\ slist[k] = Line(slist[k][2])
    BY <2>9, <2>12, <2>13
  <2>15. \A j, k \in DOMAIN slist : j < k => slist[j][2] < slist[k][2]
    <3> SUFFICES ASSUME NEW j \in 1..m, NEW k \in 1..m, j < k PROVE slist[j][2] < slist[k][2]
      BY <2>12
    <3>1. d + j \in 1..N /\ d + k \in 1..N /\ d + j < d + k
      BY <2>13
    <3> QED
      BY <2>10, <2>12, <3>1
  <2>16. \A j \in 1..N : j > d => Lines[j][2] \in given
    <3> SUFFICES ASSUME NEW j \in 1..N, j > d PROVE Lines[j][2] \in given
      OBVIOUS
    <3>1. j - d \in 1..m /\ d + (j - d) = j
      BY <2>12, <2>13 DEF d
    <3>2. slist[j - d] = Lines[j]
      BY <2>12, <3>1
    <3> QED
      BY <2>12, <3>1, <3>2 DEF given
  <2>17. \A k \in DOMAIN slist, e \in lines : slist[k][2] < e => e \in given
    <3> SUFFICES ASSUME NEW k \in 1..m, NEW e \in lines, slist[k][2] < e PROVE e \in given
      BY <2>12
    <3>1. PICK j \in 1..N : Lines[j][2] = e
      BY <2>11
    <3>2. d + k \in 1..N /\ Lines[d + k][2] < Lines[j][2]
      BY <2>12, <2>13, <3>1
    <3>3. \A i \in 1..N : Lines[i][2] \in Nat
      <4>1. lines \subseteq Nat
        BY <2>2 DEF lines
      <4> QED
        BY <2>9, <4>1
    <3>4. j > d
      <4>1. ~(j < d + k)
        BY <2>10, <3>2, <3>3
      <4> QED
        BY <2>13, <3>2, <4>1
    <3> QED
      BY <2>16, <3>1, <3>4
  <2>18. ~lost => given = lines
    <3> SUFFICES ASSUME ~lost PROVE given = lines
      OBVIOUS
    <3>1. d = 0
      BY <2>12 DEF d
    <3>2. \A j \in 1..N : Lines[j][2] \in given
      BY <2>16, <3>1
    <3>3. lines \subseteq given
      BY <2>11, <3>2
    <3> QED
      BY <2>14, <3>3 DEF given
  <2>19. behind = ptr
    <3>1. ptr - 2 \in LineEnds /\ \A x \in LineEnds : x <= ptr - 2
      <4>1. (ptr - 2) + 1 \notin LineEnds
        <5>1. \A x \in LineEnds : x + 1 \notin LineEnds
          BY <2>2 DEF CR, LF
        <5> QED
          BY <2>4, <5>1
      <4>2. (ptr - 2) + 1 = ptr - 1
        BY <2>1
      <4>3. \A x \in LineEnds : x < ptr
        BY <2>4 DEF Passed
      <4> QED
        BY <2>1, <2>2, <2>4, <4>1, <4>2, <4>3
    <3> DEFINE g == Greatest(LineEnds)
    <3>2. g \in LineEnds /\ \A x \in LineEnds : x <= g
      BY <3>1 DEF Greatest
    <3>3. g \in Nat /\ g <= ptr - 2 /\ ptr - 2 <= g
      BY <2>2, <3>1, <3>2
    <3> HIDE DEF g
    <3>4. g + 2 = ptr
      BY <2>1, <3>3
    <3> QED
      BY <3>4 DEF g, behind
  <2>20. sent[1] \in {POST, PUT} => sent[2] = IF behind <= Len(data) THEN behind ELSE JUNK
    BY <2>19 DEF IInv, Types
  <2> QED
    BY <2>14, <2>15, <2>17, <2>18, <2>20
<1> QED
  BY <1>1, Invariance, PTL

-----------------------------------------------------------------------------
(***************************************************************************)
(* ThreadPool: safety of the pool for any finite set of workers and any    *)
(* set of tasks. The heart is NoSleepOnWork: a count of the workers on     *)
(* their way to the mutex bounds the queue whenever some worker sleeps.    *)
(***************************************************************************)

\* stop is set exactly when destroy_threadpool has begun.
StopStarted == stop <=> dpc # "no"

\* The counter the workers test agrees with the list they pop from, so no
\* worker dereferences a NULL last_task.
QueueSizeExact ==
  /\ dpc # "returned" => queue_size = Len(stack)
  /\ NoTask \notin Running

PoolInv ==
  /\ PoolTypeOK
  /\ StopStarted
  /\ QueueSizeExact
  /\ TaskOnce
  /\ NoSleepOnWork

\* A set of workers at one program counter is finite.
LEMMA InPCFinite == \A p : IsFiniteSet(InPC(p))
BY WorkersAssumption, FS_Subset DEF InPC

\* The sequence facts of a push at the front of the list.
LEMMA PushFacts ==
  ASSUME NEW t \in Tasks, NEW s \in Seq(Tasks)
  PROVE  /\ <<t>> \o s \in Seq(Tasks)
         /\ Len(<<t>> \o s) = Len(s) + 1
         /\ (<<t>> \o s)[1] = t
         /\ \A i \in 1..Len(s) : (<<t>> \o s)[i + 1] = s[i]
OBVIOUS

\* The sequence facts of a pop from the front of the list.
LEMMA PopFacts ==
  ASSUME NEW s \in Seq(Tasks), s # <<>>
  PROVE  /\ Len(s) \in Nat \ {0}
         /\ Head(s) = s[1] /\ Head(s) \in Tasks
         /\ Tail(s) \in Seq(Tasks)
         /\ Len(Tail(s)) = Len(s) - 1
         /\ \A i \in 1..Len(Tail(s)) : Tail(s)[i] = s[i + 1]
OBVIOUS

\* init_threadpool satisfies the invariant.
LEMMA InitPoolInv == PoolInit => PoolInv
<1> SUFFICES ASSUME PoolInit PROVE PoolInv
  OBVIOUS
<1>t. /\ wpc \in [Workers -> {"lock", "waiting", "run", "exited"}]
      /\ task \in [Workers -> Tasks \cup {NoTask}]
  BY DEF PoolInit
<1>s. stack \in Seq(Tasks) /\ queue_size \in Nat
  BY DEF PoolInit
<1>1. PoolTypeOK /\ StopStarted
  BY <1>t, <1>s DEF PoolInit, PoolTypeOK, StopStarted
<1>a. \A w \in Workers : wpc[w] = "lock"
  BY DEF PoolInit
<1>2. InPC("waiting") = {} /\ InPC("run") = {} /\ Len(stack) = 0
  BY <1>a DEF PoolInit, InPC
<1>3. Queued = {} /\ Running = {}
  BY <1>2 DEF Queued, Running
<1>4. QueueSizeExact /\ TaskOnce /\ NoSleepOnWork
  BY <1>2, <1>3 DEF PoolInit, QueueSizeExact, TaskOnce, NoSleepOnWork
<1> QED
  BY <1>1, <1>4 DEF PoolInv

\* Signal moves one sleeper, if there is one, to the mutex and nobody else.
LEMMA SignalFacts ==
  ASSUME PoolTypeOK, Signal
  PROVE  /\ wpc' \in [Workers -> {"lock", "waiting", "run", "exited"}]
         /\ InPC("run")' = InPC("run")
         /\ \/ InPC("waiting")' = {} /\ InPC("lock")' = InPC("lock")
            \/ \E w \in Workers \ InPC("lock") :
                 InPC("lock")' = InPC("lock") \cup {w}
         /\ InPC("waiting") = {} => InPC("waiting")' = {}
BY DEF Signal, PoolTypeOK, InPC

\* Moving the workers about leaves the places of the tasks alone.
LEMMA PlacesKept ==
  ASSUME PoolInv, UNCHANGED <<stack, pushed, done, task, dpc, queue_size>>,
         InPC("run")' = InPC("run")
  PROVE  QueueSizeExact' /\ TaskOnce'
BY DEF PoolInv, QueueSizeExact, TaskOnce, Queued, Running

\* threadpool_push_task preserves the invariant.
LEMMA PushIInv ==
  ASSUME PoolInv, NEW t \in Tasks, Push(t)
  PROVE  PoolInv'
<1> DEFINE s == <<t>> \o stack
<1>0. PoolTypeOK /\ stack \in Seq(Tasks) /\ stack' = s /\ ~stop /\ dpc = "no" /\ dpc' = "no"
  BY DEF PoolInv, Push, StopStarted, PoolTypeOK
<1>1. /\ s \in Seq(Tasks) /\ Len(s) = Len(stack) + 1 /\ s[1] = t
      /\ \A i \in 1..Len(stack) : s[i + 1] = stack[i]
  BY <1>0, PushFacts
<1>s. Signal
  BY DEF Push
<1>2. PoolTypeOK' /\ StopStarted'
  BY <1>0, <1>1, <1>s, SignalFacts DEF Push, PoolTypeOK, StopStarted, PoolInv
<1>3. InPC("run")' = InPC("run") /\ Running' = Running
  BY <1>0, <1>s, SignalFacts DEF Push, Running
<1>4. QueueSizeExact'
  BY <1>0, <1>1, <1>3 DEF PoolInv, QueueSizeExact, Push, PoolTypeOK
<1> HIDE DEF s
<1>l. Len(stack) \in Nat
  BY <1>0
<1>5. \A i \in 1..Len(s) : i = 1 \/ (i - 1 \in 1..Len(stack) /\ s[i] = stack[i - 1])
  <2> SUFFICES ASSUME NEW i \in 1..Len(s), i # 1
               PROVE  i - 1 \in 1..Len(stack) /\ s[i] = stack[i - 1]
    OBVIOUS
  <2>1. i - 1 \in 1..Len(stack) /\ (i - 1) + 1 = i
    BY <1>1, <1>l
  <2> QED
    BY <1>1, <2>1
<1>6. Queued' = Queued \cup {t}
  <2>1. Queued' = {s[i] : i \in 1..Len(s)}
    BY <1>0 DEF Queued
  <2>2. ASSUME NEW i \in 1..Len(s) PROVE s[i] \in Queued \cup {t}
    BY <1>1, <1>5 DEF Queued
  <2>3. ASSUME NEW i \in 1..Len(stack) PROVE stack[i] \in Queued'
    <3>1. i + 1 \in 1..Len(s) /\ s[i + 1] = stack[i]
      BY <1>1, <1>l
    <3> QED
      BY <2>1, <3>1
  <2>4. t \in Queued'
    <3>1. 1 \in 1..Len(s)
      BY <1>1, <1>l
    <3> QED
      BY <2>1, <1>1, <3>1
  <2> QED
    BY <2>1, <2>2, <2>3, <2>4 DEF Queued
<1>7. t \notin Queued /\ t \notin Running /\ done' = done \ {t}
  BY DEF Push, PoolInv, TaskOnce
<1>8. \A i, j \in 1..Len(s) : s[i] = s[j] => i = j
  <2>1. \A i \in 1..Len(stack) : stack[i] # t
    BY <1>7 DEF Queued
  <2>2. \A i, j \in 1..Len(stack) : stack[i] = stack[j] => i = j
    BY DEF PoolInv, TaskOnce
  <2> SUFFICES ASSUME NEW i \in 1..Len(s), NEW j \in 1..Len(s), s[i] = s[j]
               PROVE  i = j
    OBVIOUS
  <2>3. CASE i = 1 \/ j = 1
    BY <2>1, <2>3, <1>1, <1>5
  <2>4. CASE i # 1 /\ j # 1
    <3>1. i - 1 \in 1..Len(stack) /\ j - 1 \in 1..Len(stack)
          /\ stack[i - 1] = stack[j - 1]
      BY <1>5, <2>4
    <3>2. i - 1 = j - 1
      BY <2>2, <3>1
    <3> QED
      BY <3>2
  <2> QED
    BY <2>3, <2>4
<1>9. TaskOnce'
  BY <1>0, <1>3, <1>6, <1>7, <1>8 DEF Push, PoolInv, TaskOnce
<1>10. NoSleepOnWork'
  <2>1. CASE InPC("waiting")' = {}
    BY <2>1 DEF NoSleepOnWork
  <2>2. CASE InPC("waiting")' # {}
    <3>1. PICK w \in Workers \ InPC("lock") : InPC("lock")' = InPC("lock") \cup {w}
      BY <2>2, <1>0, <1>s, SignalFacts
    <3>2. Cardinality(InPC("lock") \cup {w}) = Cardinality(InPC("lock")) + 1
      BY <3>1, InPCFinite, FS_AddElement
    <3>3. Len(stack) <= Cardinality(InPC("lock"))
      BY <2>2, <1>0, <1>s, SignalFacts DEF PoolInv, NoSleepOnWork
    <3>4. Cardinality(InPC("lock")) \in Nat
      BY InPCFinite, FS_CardinalityType
    <3>a. Cardinality(InPC("lock")') = Cardinality(InPC("lock")) + 1
      BY <3>1, <3>2
    <3>b. Len(stack') = Len(stack) + 1
      BY <1>0, <1>1
    <3>5. Len(stack') <= Cardinality(InPC("lock")')
      BY <1>l, <3>a, <3>b, <3>3, <3>4
    <3> QED
      BY <3>5, <1>0, <1>2 DEF NoSleepOnWork, StopStarted
  <2> QED
    BY <2>1, <2>2
<1> QED
  BY <1>2, <1>4, <1>9, <1>10 DEF PoolInv

\* A worker that goes to sleep does so with an empty queue.
LEMMA WaitIInv ==
  ASSUME PoolInv, NEW w \in Workers, Wait(w)
  PROVE  PoolInv'
<1>1. PoolTypeOK' /\ StopStarted'
  BY DEF PoolInv, Wait, PoolTypeOK, StopStarted
<1>2. InPC("run")' = InPC("run")
  BY DEF PoolInv, Wait, PoolTypeOK, InPC
<1>3. QueueSizeExact' /\ TaskOnce'
  BY <1>2, PlacesKept DEF Wait
<1>4. Len(stack') = 0
  BY DEF PoolInv, Wait, QueueSizeExact, StopStarted
<1>5. Cardinality(InPC("lock")') \in Nat
  BY WorkersAssumption, FS_Subset, FS_CardinalityType DEF InPC
<1>6. NoSleepOnWork'
  BY <1>4, <1>5 DEF NoSleepOnWork, Wait
<1> QED
  BY <1>1, <1>3, <1>6 DEF PoolInv

\* A spurious wakeup adds a worker on its way to the mutex.
LEMMA SpuriousWakeupIInv ==
  ASSUME PoolInv, NEW w \in Workers, SpuriousWakeup(w)
  PROVE  PoolInv'
<1>1. PoolTypeOK' /\ StopStarted'
  BY DEF PoolInv, SpuriousWakeup, PoolTypeOK, StopStarted
<1>2. /\ InPC("run")' = InPC("run")
      /\ InPC("lock")' = InPC("lock") \cup {w} /\ w \notin InPC("lock")
      /\ InPC("waiting")' \subseteq InPC("waiting")
      /\ w \in InPC("waiting")
  BY DEF PoolInv, SpuriousWakeup, PoolTypeOK, InPC
<1>3. QueueSizeExact' /\ TaskOnce'
  BY <1>2, PlacesKept DEF SpuriousWakeup
<1>4. /\ Cardinality(InPC("lock")') = Cardinality(InPC("lock")) + 1
      /\ Cardinality(InPC("lock")) \in Nat
  BY <1>2, InPCFinite, FS_AddElement, FS_CardinalityType
<1>5. NoSleepOnWork'
  BY <1>2, <1>4 DEF PoolInv, PoolTypeOK, NoSleepOnWork, SpuriousWakeup
<1> QED
  BY <1>1, <1>3, <1>5 DEF PoolInv

\* A worker leaves only once stop is set, when nobody sleeps any more.
LEMMA ExitIInv ==
  ASSUME PoolInv, NEW w \in Workers, Exit(w)
  PROVE  PoolInv'
<1>1. PoolTypeOK' /\ StopStarted'
  BY DEF PoolInv, Exit, PoolTypeOK, StopStarted
<1>2. InPC("run")' = InPC("run") /\ InPC("waiting")' = InPC("waiting")
  BY DEF PoolInv, Exit, PoolTypeOK, InPC
<1>3. QueueSizeExact' /\ TaskOnce'
  BY <1>2, PlacesKept DEF Exit
<1>4. NoSleepOnWork'
  BY <1>2 DEF PoolInv, NoSleepOnWork, Exit
<1> QED
  BY <1>1, <1>3, <1>4 DEF PoolInv

\* Taking a task uses up one queued task and one worker at the mutex.
LEMMA TakeIInv ==
  ASSUME PoolInv, NEW w \in Workers, Take(w)
  PROVE  PoolInv'
<1> DEFINE s == Tail(stack)
<1>a. /\ PoolTypeOK /\ stack \in Seq(Tasks)
      /\ ~stop /\ dpc = "no" /\ dpc' = "no" /\ queue_size > 0
  BY DEF PoolInv, Take, StopStarted, PoolTypeOK
<1>b. queue_size = Len(stack)
  BY <1>a DEF PoolInv, QueueSizeExact
<1>c. stack # <<>>
  BY <1>a, <1>b
<1>0. /\ PoolTypeOK /\ stack \in Seq(Tasks) /\ stack # <<>> /\ stack' = s
      /\ ~stop /\ dpc = "no" /\ dpc' = "no" /\ queue_size = Len(stack)
      /\ task' = [task EXCEPT ![w] = Head(stack)]
  BY <1>a, <1>b, <1>c DEF Take
<1>1. /\ Len(stack) \in Nat \ {0} /\ Head(stack) = stack[1]
      /\ Head(stack) \in Tasks /\ s \in Seq(Tasks)
      /\ Len(s) = Len(stack) - 1
      /\ \A i \in 1..Len(s) : s[i] = stack[i + 1]
  BY <1>0, PopFacts
<1> DEFINE h == Head(stack)
<1> HIDE DEF s, h
<1>h. h = stack[1] /\ h \in Tasks
  BY <1>1 DEF h
<1>2. PoolTypeOK' /\ StopStarted'
  BY <1>0, <1>1 DEF Take, PoolTypeOK, StopStarted, PoolInv
<1>3. /\ InPC("run")' = InPC("run") \cup {w} /\ w \notin InPC("run")
      /\ InPC("lock")' = InPC("lock") \ {w} /\ w \in InPC("lock")
      /\ InPC("waiting")' = InPC("waiting")
  BY <1>0 DEF Take, PoolTypeOK, InPC
<1>4. task'[w] = h /\ \A v \in Workers \ {w} : task'[v] = task[v]
  BY <1>0 DEF PoolTypeOK, h
<1>5. Running' = Running \cup {h}
  BY <1>3, <1>4 DEF Running, InPC
<1>6. /\ \A i \in 1..Len(s) : i + 1 \in 1..Len(stack) /\ s[i] = stack[i + 1]
      /\ 1 \in 1..Len(stack)
  BY <1>1
<1>u. \A i, j \in 1..Len(stack) : stack[i] = stack[j] => i = j
  BY DEF PoolInv, TaskOnce
<1>7. Queued' = Queued \ {h} /\ h \in Queued
  <2>1. Queued' = {s[i] : i \in 1..Len(s)}
    BY <1>0 DEF Queued
  <2>2. h \in Queued
    BY <1>6, <1>h DEF Queued
  <2>3. ASSUME NEW i \in 1..Len(s) PROVE s[i] \in Queued \ {h}
    <3>1. i + 1 # 1 /\ i + 1 \in 1..Len(stack) /\ s[i] = stack[i + 1]
      BY <1>6
    <3> QED
      BY <3>1, <1>6, <1>u, <1>h DEF Queued
  <2>4. ASSUME NEW i \in 1..Len(stack), stack[i] # h PROVE stack[i] \in Queued'
    <3>1. i - 1 \in 1..Len(s) /\ (i - 1) + 1 = i
      BY <1>1, <1>h, <2>4
    <3>2. s[i - 1] = stack[i]
      BY <1>6, <3>1
    <3> QED
      BY <2>1, <3>1, <3>2
  <2> QED
    BY <2>1, <2>2, <2>3, <2>4 DEF Queued
<1>8. \A i, j \in 1..Len(s) : s[i] = s[j] => i = j
  <2> SUFFICES ASSUME NEW i \in 1..Len(s), NEW j \in 1..Len(s), s[i] = s[j]
               PROVE  i = j
    OBVIOUS
  <2>1. i + 1 = j + 1
    BY <1>6, <1>u
  <2> QED
    BY <2>1
<1>9. QueueSizeExact'
  <2>1. NoTask \notin Running'
    BY <1>5, <1>h, NoTaskAssumption DEF PoolInv, QueueSizeExact
  <2>2. queue_size' = Len(stack')
    BY <1>0, <1>1 DEF Take
  <2> QED
    BY <2>1, <2>2 DEF QueueSizeExact
<1>10. TaskOnce'
  <2>1. h \notin Running /\ h \notin done /\ h \in pushed
    BY <1>7 DEF PoolInv, TaskOnce
  <2>2. \A v, u \in InPC("run")' : task'[v] = task'[u] => v = u
    BY <1>3, <1>4, <2>1 DEF PoolInv, TaskOnce, Running, InPC
  <2>3. done' = done /\ pushed' = pushed
    BY DEF Take
  <2>4. /\ Queued \cap Running = {} /\ Queued \cap done = {} /\ Running \cap done = {}
        /\ Queued \cup Running \cup done \subseteq pushed
        /\ pushed \subseteq Queued \cup Running \cup done
    BY <1>0 DEF PoolInv, TaskOnce
  <2>5. /\ (Queued \cap Running = {})' /\ (Queued \cap done = {})'
        /\ (Running \cap done = {})'
        /\ (Queued \cup Running \cup done \subseteq pushed)'
        /\ (pushed \subseteq Queued \cup Running \cup done)'
    BY <1>5, <1>7, <2>1, <2>3, <2>4
  <2> QED
    BY <1>0, <1>8, <2>2, <2>5 DEF TaskOnce
<1>11. NoSleepOnWork'
  <2>1. /\ Cardinality(InPC("lock")') = Cardinality(InPC("lock")) - 1
        /\ Cardinality(InPC("lock")) \in Nat
    BY <1>3, InPCFinite, FS_RemoveElement, FS_CardinalityType
  <2> QED
    BY <1>0, <1>1, <1>2, <1>3, <2>1 DEF PoolInv, NoSleepOnWork, StopStarted
<1> QED
  BY <1>2, <1>9, <1>10, <1>11 DEF PoolInv

\* A worker that finished its task goes to the mutex again.
LEMMA FinishIInv ==
  ASSUME PoolInv, NEW w \in Workers, Finish(w)
  PROVE  PoolInv'
<1>1. task[w] \in Running /\ task[w] \in Tasks
  BY NoTaskAssumption DEF PoolInv, Finish, QueueSizeExact, Running, InPC, PoolTypeOK
<1>2. PoolTypeOK' /\ StopStarted'
  BY <1>1 DEF PoolInv, Finish, PoolTypeOK, StopStarted
<1>3. /\ InPC("run")' = InPC("run") \ {w} /\ w \in InPC("run")
      /\ InPC("lock")' = InPC("lock") \cup {w} /\ w \notin InPC("lock")
      /\ InPC("waiting")' = InPC("waiting")
  BY DEF PoolInv, Finish, PoolTypeOK, InPC
<1>4. \A v \in InPC("run") \ {w} : task'[v] = task[v]
  BY DEF PoolInv, Finish, PoolTypeOK, InPC
<1>5. Running' = Running \ {task[w]}
  BY <1>3, <1>4 DEF PoolInv, TaskOnce, Running
<1>6. Queued' = Queued /\ done' = done \cup {task[w]} /\ pushed' = pushed
  BY DEF Finish, Queued
<1>7. QueueSizeExact'
  BY <1>5 DEF PoolInv, QueueSizeExact, Finish
<1>8. TaskOnce'
  BY <1>1, <1>3, <1>4, <1>5, <1>6 DEF PoolInv, TaskOnce, Finish
<1>9. /\ Cardinality(InPC("lock")') = Cardinality(InPC("lock")) + 1
      /\ Cardinality(InPC("lock")) \in Nat
  BY <1>3, InPCFinite, FS_AddElement, FS_CardinalityType
<1>10. NoSleepOnWork'
  BY <1>3, <1>9 DEF PoolInv, PoolTypeOK, NoSleepOnWork, Finish
<1> QED
  BY <1>2, <1>7, <1>8, <1>10 DEF PoolInv

\* The broadcast of destroy_threadpool leaves nobody asleep.
LEMMA StopIInv ==
  ASSUME PoolInv, Stop
  PROVE  PoolInv'
<1>1. PoolTypeOK' /\ StopStarted'
  BY DEF PoolInv, Stop, PoolTypeOK, StopStarted
<1>2. InPC("run")' = InPC("run") /\ InPC("waiting")' = {}
  BY DEF PoolInv, Stop, PoolTypeOK, InPC
<1>3. Running' = Running /\ Queued' = Queued
  BY <1>2 DEF Running, Queued, Stop
<1>4. QueueSizeExact' /\ TaskOnce'
  BY <1>2, <1>3 DEF PoolInv, QueueSizeExact, TaskOnce, Stop
<1>5. NoSleepOnWork'
  BY <1>2 DEF NoSleepOnWork
<1> QED
  BY <1>1, <1>4, <1>5 DEF PoolInv

\* Freeing the list after the joins touches no task a worker still uses.
LEMMA JoinAndFreeIInv ==
  ASSUME PoolInv, JoinAndFree
  PROVE  PoolInv'
<1>1. PoolTypeOK' /\ StopStarted'
  BY DEF PoolInv, JoinAndFree, PoolTypeOK, StopStarted
<1>2. /\ InPC("run")' = {} /\ InPC("waiting")' = {} /\ Running' = {}
      /\ Queued' = {}
  BY DEF JoinAndFree, InPC, Running, Queued
<1>3. QueueSizeExact' /\ TaskOnce' /\ NoSleepOnWork'
  BY <1>2 DEF PoolInv, JoinAndFree, QueueSizeExact, TaskOnce, NoSleepOnWork
<1> QED
  BY <1>1, <1>3 DEF PoolInv

\* Every step of the workers and of the pool's owner preserves the invariant.
LEMMA NextPoolInv == PoolInv /\ [PoolNext]_poolVars => PoolInv'
<1> SUFFICES ASSUME PoolInv, [PoolNext]_poolVars PROVE PoolInv'
  OBVIOUS
<1>1. CASE UNCHANGED poolVars
  <2>1. PoolTypeOK' /\ StopStarted'
    BY <1>1 DEF poolVars, PoolInv, PoolTypeOK, StopStarted
  <2>2. \A p : InPC(p)' = InPC(p)
    BY <1>1 DEF poolVars, InPC
  <2>3. QueueSizeExact' /\ TaskOnce'
    BY <1>1, <2>2, PlacesKept DEF poolVars
  <2>4. NoSleepOnWork'
    BY <1>1, <2>2 DEF poolVars, PoolInv, NoSleepOnWork
  <2> QED
    BY <2>1, <2>3, <2>4 DEF PoolInv
<1>2. CASE \E t \in Tasks : Push(t)
  BY <1>2, PushIInv
<1>3. CASE \E w \in Workers : WorkerStep(w) \/ SpuriousWakeup(w)
  BY <1>3, WaitIInv, SpuriousWakeupIInv, ExitIInv, TakeIInv, FinishIInv
     DEF WorkerStep
<1>4. CASE Stop \/ JoinAndFree
  BY <1>4, StopIInv, JoinAndFreeIInv
<1> QED
  BY <1>1, <1>2, <1>3, <1>4 DEF PoolNext, Destroyed

\* The invariant holds throughout every behaviour of the pool.
THEOREM PoolInvariance == PoolSpec => []PoolInv
BY InitPoolInv, NextPoolInv, PTL DEF PoolSpec

\* threadpool.c: the pool's state keeps its type.
THEOREM PoolTypes == PoolSpec => []PoolTypeOK
BY PoolInvariance, PTL DEF PoolInv

\* threadpool.c: queue_size is the length of the list, so worker never reads
\* through a NULL last_task.
THEOREM NoNullTask == PoolSpec => []QueueSizeExact
BY PoolInvariance, PTL DEF PoolInv

\* threadpool.c: every pushed task is in one place, run at most once and not
\* lost before the pool is destroyed.
THEOREM TasksOnce == PoolSpec => []TaskOnce
BY PoolInvariance, PTL DEF PoolInv

\* threadpool.c: one pthread_cond_signal per push leaves no worker asleep
\* beside a task that has no worker on its way, and stop wakes them all.
THEOREM SignalEnough == PoolSpec => []NoSleepOnWork
BY PoolInvariance, PTL DEF PoolInv
===============================================================================
