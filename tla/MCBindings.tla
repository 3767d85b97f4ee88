------------------------------ MODULE MCBindings ------------------------------
(* The ALAS bindings alone, for TLC: two devices. *)
EXTENDS AlasBindings

\* "Main" and "main" are one configuration.
BindingKey == [s \in Spellings |-> IF s = "Main" THEN "main" ELSE s]
=============================================================================
