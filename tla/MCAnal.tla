---- MODULE MCAnal ----
EXTENDS Anal

(* A function may have a parameter p, which its body does not name: what   *)
(* a call does with the name of a parameter in use is described in the     *)
(* README.                                                                 *)
MCParams == {<<>>, <<[name |-> "p", dt |-> "int"]>>}
MCArgs   == {<<>>, <<"a">>}
====
