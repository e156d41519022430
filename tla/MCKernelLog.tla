----------------------------- MODULE MCKernelLog -----------------------------
(* Words of two bytes and a ring of twelve words, three redzones: no text, *)
(* short messages, one of the greatest length, and one that PUTS rejects.  *)
EXTENDS LogDevices

MCMessages == {<<>>, <<"a">>, <<"b", HT, "c">>, <<"d", LF, "e", "f">>,
               <<"a", "a", "a", "a", "a">>}
==============================================================================
