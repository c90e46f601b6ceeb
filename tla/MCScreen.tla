------------------------------ MODULE MCScreen ------------------------------
(* Letters of one by two pixels on a screen of two by two and a half of them; a *)
(* text screen of two by three.                                              *)
EXTENDS Screen, TLC

MCText == [x |-> 2, y |-> 3]
MCGraphic == [x |-> 2, y |-> 5]
MCNumerals == <<"0", "1">>
MCLetters == <<"a">>
MCStrings == {<< >>, <<"a", "a">>}
MCGlyph == [c \in {"0", "1", "a", "-"} |->
              CASE c = "0" -> {<<0, 0>>, <<0, 1>>} [] c = "1" -> {<<0, 1>>} [] c = "a" -> {<<0, 0>>} [] OTHER -> {}]
MCPictures == {[x |-> 2, y |-> 5], [x |-> 1, y |-> 6]}
MCShift == [c \in {24, 32} |-> IF c = 24 THEN [h |-> 1, v |-> 1] ELSE [h |-> 0, v |-> 2]]
MCLeftover == [i \in Addresses |-> "m" \o ToString(i)]
=============================================================================
