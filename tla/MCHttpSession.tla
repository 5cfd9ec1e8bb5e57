--------------------------- MODULE MCHttpSession ---------------------------
(* Instances of HttpSession for TLC. *)
EXTENDS HttpSession

Page == [good |-> TRUE,  body |-> 0, junk |-> FALSE]
Form == [good |-> TRUE,  body |-> 2, junk |-> TRUE]
Big  == [good |-> TRUE,  body |-> 7, junk |-> FALSE]
Bad  == [good |-> FALSE, body |-> 0, junk |-> FALSE]

Pipelining(s) == [script |-> s, pipelines |-> TRUE]
Waiting(s)    == [script |-> s, pipelines |-> FALSE]

ManyClients == {Pipelining(<<Bad, Form, Big>>), Waiting(<<Form, Page, Bad, Page>>)}
=============================================================================
