----------------------------- MODULE MCDataNodes -----------------------------
(* Two keys and an absent one; a switch over a number, the same as a string,
   another string and an absent field, with a case that names no declared port. *)
EXTENDS DataNodes

AllKeys == {"k", "l", "None"}
Seen == {"one", "1", "two", "None"}
(* The number one and the string "1" match, as the code compares their text. *)
Match(a, b) == a = b \/ {a, b} = {"one", "1"}

(* Paths that lead through one another, and a malformed one. *)
Paths == {<<"a">>, <<"b">>, <<"c">>, <<"a", "a">>, <<"a", "b">>, <<"a", "">>}
(* An empty item, a scalar where a path may lead on, a nested dict, an empty one. *)
SmallBodies ==
  { {},
    {<< <<"a">>, "p" >>, << <<"b">>, "q" >>},
    {<< <<"a", "a">>, "p" >>, << <<"a", "b">>, "q" >>},
    {<< <<"a">>, "{}" >>, << <<"b">>, "p" >>} }
(* A scalar and a dict. *)
Assigned == { {<< <<>>, "x" >>}, {<< <<"a">>, "y" >>} }
=============================================================================
