------------------------------ MODULE HttpRequest ------------------------------
(***************************************************************************)
(* What becomes of a client's bytes: one recv (lab3/src/handler), the      *)
(* parser and the request that libcurl is given (lab3/src/http_utils).     *)
(*                                                                         *)
(* A byte is a piece of a word, a space, CR or LF; words and lines are     *)
(* told apart by their places, and pieces without a blank between them make one *)
(* word.  A method, a path, the blocked path and a version are one piece   *)
(* each; other words may be of any length, and a field's width is counted  *)
(* in pieces, too.  Every name the code compares a field with is shorter   *)
(* than the field: a width is two at least.  Nothing but recv decides how  *)
(* many of the client's bytes have arrived.                                *)
(***************************************************************************)
EXTENDS Integers, Sequences, FiniteSets

CONSTANTS Messages,     \* what clients may send
          BufferLength, \* HTTP_REQUEST_BYTES_LEN
          HeaderLimit,  \* the 10 of the loop; HTTP_HEADER_COUNT is larger
          MethodWidth, PathWidth, VersionWidth  \* of "%7s %255s %15s"

ASSUME WidthAssumption == {MethodWidth, PathWidth, VersionWidth} \subseteq Nat \ {0, 1}
ASSUME BufferAssumption == BufferLength \in Nat \ {0}
ASSUME LimitAssumption == HeaderLimit \in Nat \ {0}

GET == "G"
POST == "P"
PUT == "U"
DELETE == "D"
HEAD == "H"
Methods == {GET, POST, PUT, DELETE, HEAD}
Path == "p"
Blocked == "b"
Version == "v"
Other == "x"
Words == Methods \cup {Path, Blocked, Version, Other}
SP == "_"
CR == "r"
LF == "n"
ASSUME MessagesAssumption == Messages \subseteq Seq(Words \cup {SP, CR, LF})

\* Where a field of http_request_t comes from: its first and its last place in
\* the bytes, or twice what malloc left there, nothing of use or an earlier
\* request.
JUNK == 0
OLD == -1
Left(mem) == <<mem, mem>>

VARIABLES
  msg,      \* all the client sends
  data,     \* request_buf up to its terminator
  memory,   \* JUNK or OLD: what malloc's block held
  method, path, version,
  headers,  \* request->headers: from where to where each was copied
  body,     \* where request->body was copied from, or JUNK if it is empty
  ptr,      \* the parser's position; the terminator is at Len(data) + 1
  slist,    \* the curl_slist of header lines
  appended, \* calls of curl_slist_append
  lost,     \* history: one of them failed
  sent,     \* what libcurl sends: the verb, and where the body comes from
  pc

lineVars == <<method, path, version>>
curlVars == <<slist, appended, lost, sent>>
vars == <<msg, data, memory, lineVars, headers, body, ptr, curlVars, pc>>

Init ==
  /\ msg \in Messages
  /\ memory \in {JUNK, OLD}
  /\ data = <<>>
  /\ method = Left(memory) /\ path = Left(memory) /\ version = Left(memory)
  /\ headers = <<>>
  /\ body = JUNK
  /\ ptr = 1
  /\ slist = <<>>
  /\ lost = FALSE
  /\ sent = <<>>
  /\ appended = 0
  /\ pc = "recv"

-----------------------------------------------------------------------------
(* The searches of the C library *)

Least(S) == CHOOSE i \in S : \A j \in S : i <= j

\* strstr(from, "\r\n"), or else strstr(from, "\n"); 0 is NULL.
LineEnd(from) ==
  LET crlf == {i \in from..(Len(data) - 1) : data[i] = CR /\ data[i + 1] = LF}
      lf == {i \in from..Len(data) : data[i] = LF}
  IN IF crlf # {} THEN Least(crlf) ELSE IF lf # {} THEN Least(lf) ELSE 0

\* What a %s of this width takes from place i on: it skips the blanks, line ends
\* among them, and stops behind a word or, within it, when the field is full.
None == Left(JUNK)
WordFrom(i, width) ==
  LET begins == {j \in i..Len(data) : data[j] \in Words}
      b == Least(begins)
      ends == {e \in b..Len(data) : e = b + width - 1 \/ e = Len(data) \/ data[e + 1] \notin Words}
  IN IF begins = {} THEN None ELSE <<b, Least(ends)>>

\* The three conversions of sscanf, each from where the one before it stopped.
Word1 == WordFrom(1, MethodWidth)
Word2 == IF Word1 = None THEN None ELSE WordFrom(Word1[2] + 1, PathWidth)
Word3 == IF Word2 = None THEN None ELSE WordFrom(Word2[2] + 1, VersionWidth)

\* What a conversion leaves in its field.
Scanned(word, field) == IF word = None THEN field ELSE word

-----------------------------------------------------------------------------
(* __handle_client up to the map *)

\* __recv: one call, which returns what has arrived, or 0 bytes if the client
\* closed the connection.
Recv ==
  /\ pc = "recv"
  /\ \E n \in 0..Len(msg) :
       /\ n <= BufferLength - 1
       /\ data' = SubSeq(msg, 1, n)
  /\ pc' = "line"
  /\ UNCHANGED <<msg, memory, lineVars, headers, body, ptr, curlVars>>

\* recv or the malloc of parse_http_request fails.
RecvFails ==
  /\ pc = "recv"
  /\ pc' = "closed"
  /\ UNCHANGED <<msg, data, memory, lineVars, headers, body, ptr, curlVars>>

\* Mutant: the fields are scanned although no line has ended.
ParseLineAlways ==
  /\ pc = "line"
  /\ method' = Scanned(Word1, method) /\ path' = Scanned(Word2, path) /\ version' = Scanned(Word3, version)
  /\ ptr' = IF LineEnd(ptr) = 0 THEN ptr ELSE LineEnd(ptr) + 2
  /\ pc' = "headers"
  /\ UNCHANGED <<msg, data, memory, headers, body, curlVars>>

\* The first line.  Without a line end the fields keep what malloc left.
ParseLine ==
  /\ pc = "line"
  /\ IF LineEnd(ptr) = 0
       THEN UNCHANGED <<lineVars, ptr>>
       ELSE /\ method' = Scanned(Word1, method)
            /\ path' = Scanned(Word2, path)
            /\ version' = Scanned(Word3, version)
            /\ ptr' = LineEnd(ptr) + 2
  /\ pc' = "headers"
  /\ UNCHANGED <<msg, data, memory, headers, body, curlVars>>

\* Mutant: ptr moves on before the limit is looked at.
ParseHeaderMoves ==
  /\ pc = "headers"
  /\ LineEnd(ptr) # 0
  /\ headers' = Append(headers, <<ptr, LineEnd(ptr)>>)
  /\ ptr' = LineEnd(ptr) + 3
  /\ pc' = IF Len(headers) + 1 >= HeaderLimit THEN "body" ELSE "headers"
  /\ UNCHANGED <<msg, data, memory, lineVars, body, curlVars>>

\* One header.  The empty line before the body is one, too; at the limit ptr
\* stays where the last header begins.
ParseHeader ==
  /\ pc = "headers"
  /\ LineEnd(ptr) # 0
  /\ headers' = Append(headers, <<ptr, LineEnd(ptr)>>)
  /\ IF Len(headers) + 1 >= HeaderLimit
       THEN pc' = "body" /\ UNCHANGED ptr
       ELSE ptr' = LineEnd(ptr) + 2 /\ UNCHANGED pc
  /\ UNCHANGED <<msg, data, memory, lineVars, body, curlVars>>

EndHeaders ==
  /\ pc = "headers"
  /\ LineEnd(ptr) = 0
  /\ pc' = "body"
  /\ UNCHANGED <<msg, data, memory, lineVars, headers, body, ptr, curlVars>>

ParseBody ==
  /\ pc = "body"
  /\ body' = IF ptr <= Len(data) THEN ptr ELSE JUNK
  /\ pc' = "validate"
  /\ UNCHANGED <<msg, data, memory, lineVars, headers, ptr, curlVars>>

\* What stands in a field; an earlier request had a version and a path.
Content(field, old) ==
  IF field = Left(OLD) THEN <<old>> ELSE IF field = None THEN <<>>
  ELSE SubSeq(data, field[1], field[2])

\* __validate_request; the handler goes on to the map and, as the session main
\* thread without a cache file, to send_http_request.
Validate ==
  /\ pc = "validate"
  /\ pc' = IF Content(version, Version) = <<Version>> /\ Content(path, Path) # <<Blocked>>
             THEN "slist" ELSE "closed"
  /\ UNCHANGED <<msg, data, memory, lineVars, headers, body, ptr, curlVars>>

-----------------------------------------------------------------------------
(* send_http_request *)

\* What __prepare_headers has to append, its own "Accept-Encoding:" first.
Lines == <<<<0, 0>>>> \o headers

\* Mutant: the loop runs to header_count - 1.
AppendHeaderOneLess ==
  /\ pc = "slist"
  /\ appended < Len(Lines) - 1
  /\ slist' = Append(slist, Lines[appended + 1])
  /\ appended' = appended + 1
  /\ pc' = IF appended + 2 = Len(Lines) THEN "perform" ELSE "slist"
  /\ UNCHANGED <<msg, data, memory, lineVars, headers, body, ptr, lost, sent>>

AppendHeader ==
  /\ pc = "slist"
  /\ slist' = Append(slist, Lines[appended + 1])
  /\ appended' = appended + 1
  /\ pc' = IF appended + 1 = Len(Lines) THEN "perform" ELSE "slist"
  /\ UNCHANGED <<msg, data, memory, lineVars, headers, body, ptr, lost, sent>>

\* curl_slist_append returns NULL: the first time it ends the request, later
\* the lines appended before are gone and the loop goes on.
AppendFails ==
  /\ pc = "slist"
  /\ slist' = <<>>
  /\ lost' = TRUE
  /\ appended' = appended + 1
  /\ pc' = IF appended = 0 THEN "failed"
           ELSE IF appended + 1 = Len(Lines) THEN "perform" ELSE "slist"
  /\ UNCHANGED <<msg, data, memory, lineVars, headers, body, ptr, sent>>

\* __parse_method and the switch: every other method, HEAD and PATCH too, is
\* left at libcurl's default, GET.
Perform ==
  /\ pc = "perform"
  /\ LET m == Content(method, GET) IN
       sent' = <<IF m \in {<<POST>>, <<PUT>>, <<DELETE>>} THEN m[1] ELSE GET,
                 IF m \in {<<POST>>, <<PUT>>} THEN body ELSE JUNK>>
  /\ pc' = "sent"
  /\ UNCHANGED <<msg, data, memory, lineVars, headers, body, ptr, slist, appended, lost>>

Over == pc \in {"closed", "failed", "sent"} /\ UNCHANGED vars

Next ==
  \/ Recv \/ RecvFails \/ ParseLine \/ ParseHeader \/ EndHeaders \/ ParseBody \/ Validate
  \/ AppendHeader \/ AppendFails \/ Perform \/ Over

Spec == Init /\ [][Next]_vars

-----------------------------------------------------------------------------
TypeOK ==
  /\ \A field \in {method, path, version} : field \in {Left(OLD), None} \cup (1..Len(data)) \X (1..Len(data))
  /\ headers \in Seq((1..BufferLength) \X (1..BufferLength))
  /\ Len(headers) <= HeaderLimit
  /\ body \in 0..Len(data)

LFs == {i \in DOMAIN data : data[i] = LF}
CRs == {i \in DOMAIN data : data[i] = CR}
BareLF(i) == data[i] = LF /\ (i = 1 \/ data[i - 1] # CR)

\* The words among the bytes, from their first to their last place.
AllWords ==
  {w \in (DOMAIN data) \X (DOMAIN data) :
     /\ w[1] <= w[2] /\ \A i \in w[1]..w[2] : data[i] \in Words
     /\ w[1] = 1 \/ data[w[1] - 1] \notin Words
     /\ w[2] = Len(data) \/ data[w[2] + 1] \notin Words}

\* a, b and c follow one another and hold all of the words up to the end of c.
Covers(a, b, c) ==
  /\ a[2] < b[1] /\ b[2] < c[1]
  /\ \A i \in 1..c[2] : data[i] \in Words => i \in (a[1]..a[2]) \cup (b[1]..b[2]) \cup (c[1]..c[2])

Fits(w, width) == w[2] - w[1] < width

\* The first line has ended and a, b and c are its first three words, each no
\* longer than its field.
Complete(a, b, c) ==
  /\ Covers(a, b, c) /\ Fits(a, MethodWidth) /\ Fits(b, PathWidth) /\ Fits(c, VersionWidth)
  /\ LFs # {} /\ c[2] < Least(LFs)

Acted == pc \in {"slist", "failed", "perform", "sent"}

\* The handler acts on the client's own method, path and version, though recv
\* may return any part of the request: if the first line is complete and its
\* words fit their fields, these are what it goes on with, and it is refused for
\* its version or a blocked path only.  What of an over-long word does not fit
\* its field goes into the next one (http_utils.c:157), so that the handler may
\* act on a path or a version that is no word of the client's; but no byte of the
\* client's is skipped, and without a line it acts only if the block that malloc
\* returned holds an earlier request (http_utils.c:156).
OwnRequest ==
  /\ Acted \/ pc = "closed" =>
       \A a, b, c \in AllWords : Complete(a, b, c) =>
         IF Acted THEN <<method, path, version>> = <<a, b, c>>
         ELSE SubSeq(data, c[1], c[2]) # <<Version>> \/ SubSeq(data, b[1], b[2]) = <<Blocked>>
  /\ Acted /\ memory = JUNK =>
       /\ LFs # {} /\ method[1] >= 1 /\ Covers(method, path, version)
       /\ SubSeq(data, version[1], version[2]) = <<Version>>

\* The parser stays inside request_buf, in the zeros behind the bytes received
\* at most, unless these fill it and end in a bare "\n", whose second byte is
\* one too many (http_utils.c:158, http_utils.c:174).
InBuffer ==
  /\ TypeOK
  /\ ptr <= Len(data) + 2
  /\ ptr > BufferLength => Len(data) = BufferLength - 1 /\ BareLF(Len(data))

\* Where the lines that end in CRLF end, and the line that ends at e; 0 stands
\* for the proxy's own line.
LineEnds == {i \in CRs : i + 1 \in LFs}
Greatest(S) == CHOOSE i \in S : \A j \in S : j <= i
Line(e) == IF e = 0 THEN <<0, 0>> ELSE <<Greatest({p \in LineEnds : p < e}) + 2, e>>

\* If every line ends in CRLF and there are fewer than HeaderLimit of them after
\* the first, libcurl is given each of them once and in order, and for POST and
\* PUT what has arrived behind the last; an allocation that fails on the way loses the
\* lines before it and no other (http_utils.c:145).
Forwarded ==
  LET lines == {0} \cup (LineEnds \ {Least(LineEnds)})
      given == {slist[k][2] : k \in DOMAIN slist}
      behind == Greatest(LineEnds) + 2
  IN /\ pc = "sent"
     /\ \A i \in LFs : ~BareLF(i)
     /\ Cardinality(LineEnds) \in 1..HeaderLimit
     => /\ \A k \in DOMAIN slist : slist[k][2] \in lines /\ slist[k] = Line(slist[k][2])
        /\ \A j, k \in DOMAIN slist : j < k => slist[j][2] < slist[k][2]
        /\ \A k \in DOMAIN slist, e \in lines : slist[k][2] < e => e \in given
        /\ ~lost => given = lines
        /\ sent[1] \in {POST, PUT} => sent[2] = IF behind <= Len(data) THEN behind ELSE JUNK
================================================================================
