------------------------------ MODULE MCInput -------------------------------
(***************************************************************************)
(* Two windows that overlap once one is dragged, and movements that cross  *)
(* the edges of both and of the screen, also by less than a pixel.         *)
(***************************************************************************)
EXTENDS Input

TwoWindows == <<[x |-> 0, y |-> 0, w |-> 2, h |-> 2], [x |-> 2, y |-> 1, w |-> 2, h |-> 2]>>

FewReports == {<<8, 1, 255>>, <<8, 7, 1>>}

SomeReports ==
  FewReports \cup
  {<<9, 7, 1>>, <<9, 252, 0>>, <<9, 0, 252>>, <<8, 0, 252>>, <<11, 248, 4>>}

SomeTexts == {<<"character", "newline">>, <<"character", "character">>}

SomeData == {<<"newline", "character">>}

=============================================================================
