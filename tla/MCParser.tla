---- MODULE MCParser ----
EXTENDS Parser

MCTokens == {"int", "void", "struct", "sym", "num", "lit", "if", "else", "for", "do", "while",
             "return", "break", "{", "}", "(", ")", "[", "]", ";", ",", ":", ".", "=",
             "||", "+", "*", "++"}

(* Inputs stop anywhere and begin anywhere: a declaration, a parameter     *)
(* list, a structure, and inside a function a statement, a loop body, a    *)
(* pointer declaration, the head of a for, an expression.                  *)
MCPrefixes ==
  LET fn == <<"int", "sym", "(", ")", "{">> IN
  {<<>>, <<"int", "sym", "(">>, <<"struct", "sym", "{">>, fn,
   fn \o <<"do", "{", "break", ";">>, fn \o <<"while", "(", "num", ")", "{">>,
   fn \o <<"int", "*", "sym">>, fn \o <<"for", "(", "int", "sym">>,
   fn \o <<"if", "(", "num", ")", "{", "}">>,
   fn \o <<"sym", "=", "sym", "+", "sym">>, fn \o <<"sym", "(", "sym", "[">>, fn \o <<"sym", "[", "num">>}
====
