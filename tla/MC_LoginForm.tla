----------------------------- MODULE MC_LoginForm -----------------------------
(* Three emails (empty, well formed, without a '.'), passwords of five and *)
(* of six characters, two of them different so a confirmation can differ  *)
(* from a password of valid length, and names empty or filled.  The email *)
(* pattern is checked on every text of up to five characters over a      *)
(* letter, '@', '.' and a space.                                          *)
EXTENDS LoginForm

MCEmails == {<<>>, <<"a", "@", "b", ".", "c">>, <<"a", "@", "b", "c">>}
MCPasswords == {<<>>, <<"a", "b", "c", "d", "e">>,
                <<"a", "b", "c", "d", "e", "f">>, <<"a", "b", "c", "d", "e", "g">>}
MCNames == {<<>>, <<"J">>}
MCProviders == {"Google", "Facebook"}
MCEmailProbes == BoundedSeq({"a", "@", ".", " "}, 5)
=============================================================================
