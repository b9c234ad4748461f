----------------------------- MODULE MCFrontend -----------------------------
(* Frontend with every button the program looks at, and, where time matters, *)
(* with one button for each kind of reaction.                                *)
EXTENDS Frontend

AllButtons == {"A", "B", "1", "2", "MINUS", "PLUS", "HOME"}
FewButtons == {"A", "1", "HOME"}
=============================================================================
