---------------------------- MODULE MCHttpRequest -----------------------------
(* Requests with one to three words in their first line, some longer than  *)
(* their fields, up to three lines after it, empty or not, and a body or   *)
(* none; each line ends in CRLF or LF alone.                               *)
EXTENDS HttpRequest, SequencesExt

Ends == {<<CR, LF>>, <<LF>>}
LongLines ==
  {<<Other, Other, Path, SP, Version>>, <<GET, Other, Version, SP, Path, SP, Version>>,
   <<GET, SP, Path, Other, Version>>, <<GET, SP, Path, Other, Other, SP, Version>>,
   <<GET, SP, Path, Other, SP, Version>>, <<GET, SP, Path, SP, Version, Other, Other>>}
FirstLines ==
  {<<>>, <<GET>>, <<GET, SP, Path>>, <<GET, SP, Path, SP, Other>>, <<GET, SP, Blocked, SP, Version>>}
  \cup {<<m, SP, Path, SP, Version>> : m \in Methods}
OtherLines == {<<>>, <<Other>>}
Blocks(n) == [1..n -> {l \o e : l \in OtherLines, e \in Ends}]
Requests(firsts, n) ==
  {first \o end \o FlattenSeq(lines) \o rest :
     first \in firsts, end \in Ends,
     lines \in UNION {Blocks(k) : k \in 0..n}, rest \in {<<>>, <<Other>>}}

MCMessages == Requests(FirstLines, 3) \cup Requests(LongLines, 1)
===============================================================================
