----------------------------- MODULE AnswerText -----------------------------
(***************************************************************************)
(* The text of an answer and what the generated parsers make of it         *)
(* (mad-hatter-macros/src/llm.rs, mad-hatter/src/llm.rs).                  *)
(*                                                                         *)
(* A text is a sequence of words, each with or without the newline that    *)
(* ends its line.  The words that matter are the separator of elements and *)
(* the end marker, the tags around thinking, the names of variants, and    *)
(* the separators of fields; all others are "word".  Blank lines and lines *)
(* of code fences, which the parsers skip alike, are left out.             *)
(***************************************************************************)
EXTENDS Integers, FiniteSetsExt, SequencesExt

Words == {"sep", "end", "open", "half", "close", "unit", "name", "f", "g", "word"}
Token == [w : Words, nl : BOOLEAN]

\* The variant "name" has the required field f and the optional field g.
Schema == <<"f", "g">>

Least(S) == IF S = {} THEN 0 ELSE Min(S)
From(t, i) == SubSeq(t, i, Len(t))
Between(t, i, j) == SubSeq(t, i + 1, j - 1)

(* trim, trim_end and trim_end_matches: the last newline goes.             *)
Trim(t) == IF t = <<>> THEN t ELSE [t EXCEPT ![Len(t)].nl = FALSE]

(* Does word i make a line of its own, as far as the text goes?            *)
IsLine(t, i) == (i = 1 \/ t[i - 1].nl) /\ (t[i].nl \/ i = Len(t))
LinesOf(t, w) == {i \in DOMAIN t : t[i].w = w /\ IsLine(t, i)}

FindLine(t, w) == Least(LinesOf(t, w))

---------------------------------------------------------------------------
(* The fields of an element: each separator is looked for as a substring   *)
(* that ends a line, from where the field before it was cut off.           *)

Ends(t, w) == {i \in DOMAIN t : t[i].w = w /\ (t[i].nl \/ i = Len(t))}

Stop(t, k) ==
  LET later == {j \in (k + 1)..Len(Schema) : Ends(t, Schema[j]) # {}}
  IN IF later = {} THEN Len(t) + 1 ELSE Min(Ends(t, Schema[Min(later)]))

Field(t, k) ==
  LET at == Least({i \in DOMAIN t : t[i] = [w |-> Schema[k], nl |-> TRUE]})
      alone == Len(t) = 1 /\ t[1].w = Schema[k]
      rest == From(t, IF at = 0 THEN 2 ELSE at + 1)
      stop == Stop(rest, k)
  IN IF at = 0 /\ ~alone THEN [value |-> <<>>, rest |-> t]
     ELSE [value |-> Trim(Between(rest, 0, stop)), rest |-> From(rest, stop)]

Values(body) ==
  LET f == Field(body, 1)
      g == Field(f.rest, 2)
  IN <<f.value, g.value>>

Result(what, f, g) == [what |-> what, f |-> f, g |-> g]
Error(what) == Result(what, <<>>, <<>>)

(* One chunk of from_markdown: the variant on a line, then its fields.     *)
Chunk(t) ==
  LET values == Values(Tail(t)) IN
  IF ~IsLine(t, 1) \/ t[1].w \notin {"unit", "name"} THEN Error("parse")
  ELSE IF t[1].w = "unit" THEN Result("unit", <<>>, <<>>)
  ELSE IF values[1] = <<>> THEN Error("parse")
  ELSE Result("name", values[1], values[2])

(* from_markdown of one element between the markers the stream puts around *)
(* it: split wherever a line ends with the separator, all chunks parsed,   *)
(* the first result taken.                                                 *)
Parse(text) ==
  LET t == Trim(text)
      cuts == {0, Len(t) + 1} \cup {i \in DOMAIN t : t[i] = [w |-> "sep", nl |-> TRUE]}
      starts == {i \in cuts : \E j \in cuts : j > i + 1 /\ \A k \in cuts : k <= i \/ k >= j}
      After(i) == Trim(Between(t, i, Min({j \in cuts : j > i})))
  IN IF \E i \in starts : Chunk(After(i)).what = "parse" THEN Error("parse")
     ELSE Chunk(After(Min(starts)))

---------------------------------------------------------------------------
(* What the schema in the prompt says a text means (schema_markdown).      *)

FieldWords(t) == {i \in DOMAIN t : t[i].w \in {"f", "g"}}

(* An element written as the schema shows it means its fields.             *)
Element(seg) ==
  LET fields == FieldWords(seg)
      whole == Len(seg) + 1
  IN IF Len(seg) >= 3 /\ seg[1].w = "name" /\ seg[2].w = "f" /\ fields \in {{2}} \cup {{2, i} : i \in 4..Len(seg)}
        /\ \A i \in fields \ {2} : seg[i].w = "g"
     THEN LET g == IF fields = {2} THEN whole ELSE Max(fields)
          IN Result("name", Trim(Between(seg, 2, g)), Trim(Between(seg, g, whole)))
     ELSE Parse(seg)

(* Up to the first error: readers take no more after it.                   *)
UpToError(results) ==
  LET bad == Least({i \in DOMAIN results : results[i].what \notin {"unit", "name"}})
  IN IF bad = 0 THEN results ELSE SubSeq(results, 1, bad)

(* The elements lie between a mark and the next, unless nothing does.      *)
NextMark(marks, i) == Min({j \in marks : j > i})
Starts(marks) == {i \in marks : \E j \in marks : j > i + 1 /\ j = NextMark(marks, i)}

Nth(S, k) == Min({i \in S : Cardinality({j \in S : j <= i}) = k})

Segments(t, marks) ==
  [k \in 1..Cardinality(Starts(marks)) |->
     LET i == Nth(Starts(marks), k) IN Element(Between(t, i, NextMark(marks, i)))]

(* The text after the thinking that may come first: elements, each after a *)
(* separator, up to the end marker.  A stream that closes before that      *)
(* marker is truncated.                                                    *)
Body(t, closed) ==
  LET seps == LinesOf(t, "sep")
      end == Least(LinesOf(t, "end"))
      marks == IF end = 0 THEN seps ELSE {i \in seps : i < end} \cup {end}
      truncated == IF closed /\ end = 0 THEN <<Error("truncated")>> ELSE <<>>
  IN IF seps = {}
     THEN IF \E i \in DOMAIN t : t[i].nl THEN <<Error("format")>> ELSE truncated
     ELSE IF Min(seps) # 1 THEN <<Error("format")>>
     ELSE UpToError(Segments(t, marks) \o truncated)

Meaning(t, closed) ==
  LET close == Least(LinesOf(t, "close")) IN
  IF t = <<>> \/ t[1].w # "open" THEN Body(t, closed)
  ELSE IF close = 0
  THEN IF closed /\ LinesOf(t, "end") = {} THEN <<Error("truncated")>> ELSE <<>>
  ELSE Body(From(t, close + 1), closed)

(* The texts whose meaning does not depend on how they are read: the words *)
(* of the format stand on lines of their own, thinking comes first and has *)
(* no separators in it.                                                    *)
Clean(t) ==
  /\ \A i \in DOMAIN t : t[i].w \in {"sep", "end", "close", "f", "g"} => IsLine(t, i)
  /\ \A i \in DOMAIN t : t[i].w = "open" => i = 1
  /\ t # <<>> /\ t[1].w = "open" =>
       \A i \in LinesOf(t, "sep") : \E j \in LinesOf(t, "close") : j < i
============================================================================
