---------------------------- MODULE MCWebEngine -----------------------------
(* An instance of WebEngine in which one of the two slots can come to have *)
(* two lifecycles.                                                         *)
EXTENDS WebEngine

TwoAndOne == {<<1, 1>>, <<1, 2>>, <<2, 1>>}

=============================================================================
