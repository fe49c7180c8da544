------------------------------- MODULE MCStartup -------------------------------
(***************************************************************************)
(* The files TLC starts with: one connection of every kind in a file or a  *)
(* directory, directories of up to three entries with connections of two   *)
(* names in several spellings, and two tools.                              *)
(***************************************************************************)
EXTENDS Startup

Name(word, upper, space) == [word |-> word, upper |-> upper, space |-> space]
Names == {Name(1, FALSE, FALSE), Name(1, TRUE, FALSE), Name(2, FALSE, TRUE), Name(0, FALSE, TRUE)}

Url(scheme, host, user, fragment) ==
    [scheme |-> scheme, host |-> host, user |-> user, fragment |-> fragment]
AllUrls == {NoUrl} \cup {Url(s, "", FALSE, FALSE) : s \in {"file", "path", "jdbc"}} \cup
        {Url(s, h, u, f) : s \in {"mysql", "postgres"}, h \in {"", "db"}, u, f \in BOOLEAN}

Connection(name, driver, url, dsn, username, password) ==
    [name |-> name, driver |-> driver, url |-> url, dsn |-> dsn,
     username |-> username, password |-> password]

\* Every kind of connection, alone.
Singles ==
    {Connection(Name(1, TRUE, TRUE), d, u, s, n, p) :
        d \in {"", "mysql", "postgres", "sqlite3", "oracle"}, u \in AllUrls,
        s \in {NoDsn, <<"native">>}, n, p \in BOOLEAN}

\* Some kinds, under several names.
Kinds(name) ==
    {Connection(name, "oracle", Url("mysql", "db", FALSE, FALSE), NoDsn, TRUE, TRUE),
     Connection(name, "sqlite", NoUrl, <<"native">>, FALSE, FALSE)}
Several == UNION {Kinds(n) : n \in Names}

File(cs) == [readable |-> TRUE, connections |-> cs]
Unreadable == [readable |-> FALSE, connections |-> <<>>]
Entry(kind, file) == [kind |-> kind, file |-> file]
Config(cs) == Entry("config", File(cs))

C1 == Connection(Name(1, FALSE, FALSE), "", Url("path", "", FALSE, FALSE), NoDsn, FALSE, FALSE)
C2 == Connection(Name(2, FALSE, FALSE), "", Url("postgres", "db", FALSE, FALSE), NoDsn, TRUE, FALSE)

Alone   == {<<Config(<<c>>)>> : c \in Singles}
Pairs   == {<<Config(<<c>>), Config(<<d>>)>> : c, d \in Several}
Lists   == {<<Config(<<c, d>>)>> : c, d \in Several}
Mixed   == {<<Entry("skipped", Unreadable), Config(<<C2>>), e>> :
               e \in {Config(<<C1>>), Entry("config", Unreadable), Config(<<>>),
                      Entry("skipped", File(<<C2>>))}}
Folders == Alone \cup Pairs \cup Lists \cup Mixed \cup {<<>>, <<Entry("skipped", File(<<C1>>))>>}

Place(kind, entries) == [kind |-> kind, entries |-> entries]
AllPlaces ==
    {Place("directory", f) : f \in Folders} \cup
    {Place("file", f) : f \in Alone \cup Lists \cup {<<Entry("config", Unreadable)>>}} \cup
    {Place("none", <<>>)}

Tools == {Name(1, FALSE, FALSE), Name(2, FALSE, FALSE)}
SpecOf(name, meta, action, toolType, compiles) ==
    [name |-> name, meta |-> meta, action |-> action, toolType |-> toolType,
     viewport |-> toolType, compiles |-> compiles]
Specs ==
    {SpecOf(n, TRUE, FALSE, FALSE, TRUE) : n \in Names \cup {Name(3, FALSE, FALSE)}} \cup
    {SpecOf(Name(1, FALSE, FALSE), m, a, t, c) : m, a, t, c \in BOOLEAN} \cup
    {[SpecOf(Name(1, FALSE, FALSE), TRUE, FALSE, TRUE, TRUE) EXCEPT !.viewport = FALSE]}
SpecFile(rank, readable, spec) == [rank |-> rank, readable |-> readable, spec |-> spec]
AllFiles ==
    {{}} \cup {{SpecFile(1, r, s)} : r \in BOOLEAN, s \in Specs} \cup
    {{SpecFile(1, TRUE, s), SpecFile(2, r, t)} : r \in BOOLEAN, s, t \in Specs}

GoodPlace == Place("directory", <<Config(<<C2>>), Config(<<C1>>)>>)
GoodFiles == {SpecFile(2, TRUE, SpecOf(Name(1, FALSE, FALSE), TRUE, FALSE, FALSE, TRUE)),
              SpecFile(1, TRUE, SpecOf(Name(2, FALSE, FALSE), TRUE, FALSE, FALSE, TRUE))}
AllSettings ==
    {<<p, GoodFiles>> : p \in AllPlaces} \cup {<<GoodPlace, f>> : f \in AllFiles}
=============================================================================
