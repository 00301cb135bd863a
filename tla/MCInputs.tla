------------------------------ MODULE MCInputs ------------------------------
EXTENDS Inputs
MCShape  == [n \in 1 .. Fields |-> CASE n = 1 -> "value" [] n = 2 -> "subform" [] n = 3 -> "subforms" [] OTHER -> "file"]
MCPair   == <<"subform", "subforms">>
=============================================================================
