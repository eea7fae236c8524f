---------------------------- MODULE MCNameServer ----------------------------
(* NameServer on small sets of users, servers and names.                   *)
EXTENDS NameServer, TLC

\* A file of the root and the name it gets when it is moved to folder d.
RootAndFolder == {<<"f">>, <<"d", "f">>}
\* A second file that only competes for the cache.
ThreeFiles == RootAndFolder \cup {<<"g">>}
OneFile == {<<"f">>}

\* Users are interchangeable.
UserSymmetry == Permutations(Users)
=============================================================================
