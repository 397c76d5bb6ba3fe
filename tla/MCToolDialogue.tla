-------------------------- MODULE MCToolDialogue --------------------------
(***************************************************************************)
(* Two functions, of which the host may offer both or one.                 *)
(***************************************************************************)
EXTENDS ToolDialogue

CONSTANTS look, book

P(kind) == [kind |-> kind]
Q(kind, fn) == [kind |-> kind, fn |-> fn]

\* Nothing, words, a call with words or after thinking, parallel calls, and calls
\* written in one format, in two, and of a tool that is not offered.
MCAnswers ==
  {<<>>, <<P("text")>>,
   <<P("text"), Q("call", look)>>, <<Q("call", book)>>, <<P("thinking"), Q("call", look)>>,
   <<Q("call", look), Q("call", book)>>,
   <<Q("tags", look), Q("bracket", book)>>, <<Q("json", book), P("text"), Q("json", look)>>}
=============================================================================
