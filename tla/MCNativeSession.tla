---------------------------- MODULE MCNativeSession ----------------------------
(* The forms a server of the instance presents. *)
EXTENDS NativeSession

Opt(kind, user, second, filled) ==
  [kind |-> kind, user |-> user, second |-> second, filled |-> filled]
UserName      == Opt("text", TRUE, FALSE, FALSE)
Password      == Opt("password", FALSE, FALSE, FALSE)
Code          == Opt("password", FALSE, TRUE, FALSE)
Echoed        == Opt("password", FALSE, FALSE, TRUE)
Plain(filled) == Opt("text", FALSE, FALSE, filled)
Hidden        == Opt("hidden", FALSE, FALSE, TRUE)
Token         == Opt("token", FALSE, FALSE, FALSE)
F(id, group, options) == [id |-> id, group |-> group, options |-> options]

MCForms ==
  { F("main", "none", <<UserName, Password>>),
    F("main", "none", <<UserName, Password, Password>>),
    F("main", "offered", <<UserName, Password>>),
    F("none", "missing", <<Plain(TRUE), Hidden>>),
    F("main", "selected", <<UserName, Code, Password, Echoed>>),
    F("challenge", "none", <<Plain(FALSE), Password, Hidden>>),
    F("challenge", "none", <<Plain(TRUE), Password, Hidden>>),
    F("challenge", "none", <<Hidden, Hidden>>),
    F("challenge", "none", <<Hidden>>),
    F("none", "none", <<Hidden>>),
    F("none", "none", <<Token, Plain(TRUE)>>) }
=============================================================================
