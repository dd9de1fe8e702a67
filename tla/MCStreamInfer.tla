--------------------------- MODULE MCStreamInfer ---------------------------
(***************************************************************************)
(* StreamInfer for TLC: the words an answer may go on with and how it may  *)
(* begin, so that short texts reach into thinking and into elements.       *)
(***************************************************************************)
EXTENDS StreamInfer

Line(w) == [w |-> w, nl |-> TRUE]
Part(w) == [w |-> w, nl |-> FALSE]

MCAlphabet ==
  {Line(w) : w \in {"sep", "close", "unit", "f", "g", "word"}}
    \cup {Part(w) : w \in {"sep", "end", "open", "word"}}

MCOpenings ==
  {<<token>> : token \in MCAlphabet} \cup
  {<<Line("sep"), Line("unit")>>,
   <<Line("sep"), Line("name"), Line("f"), Line("word")>>,
   <<Part("open"), Line("word"), Line("close")>>}
============================================================================
