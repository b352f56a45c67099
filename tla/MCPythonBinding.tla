-------------------------- MODULE MCPythonBinding --------------------------
(* A TLC instance of PythonBinding: two regions; no state, an integer, one that does
   not fit, or an integer, a text and two more integers, of which one is too many for
   the key; states attached under the names of an integer and of the text among them, and one
   under no keyword's; stacks of three frames and frames of five attached states, which a
   capture exceeds. *)
EXTENDS PythonBinding
TwoRegions == {"a", "b"}
Given == {<<>>, <<<<"n", "1">>>>, <<<<"n", "9">>>>, <<<<"n", "1">>, <<"m", "text">>, <<"k", "1">>, <<"l", "1">>>>}
Small == {"-1", "1", "9"}
Nine == {"9"}
ThreeNotes == {<<"n", "5">>, <<"m", "other">>, <<"note", "text">>}
=============================================================================
