--------------------------- MODULE ConnectionCatalog ---------------------------
(***************************************************************************)
(* internal/database/catalog.go and NewService of service.go: the          *)
(* connections are loaded from one file or from a directory of files,      *)
(* validated, and entered in the service's map.                            *)
(*                                                                         *)
(* A name is [word, upper, space]: the word stands for its letters, 0 is   *)
(* the empty one; upper and space say whether it is written with capital   *)
(* letters and with blanks around it.  A driver, a URL's scheme and a host *)
(* are words, "" is an absent one.                                         *)
(***************************************************************************)
EXTENDS Integers, SequencesExt, FiniteSetsExt

Trim(name)  == [name EXCEPT !.space = FALSE]
Lower(name) == [name EXCEPT !.upper = FALSE]

NoUrl == [scheme |-> "", host |-> "", user |-> FALSE, fragment |-> FALSE]
NoDsn == <<>>

VARIABLES
    place,       \* what the path leads to: [kind, entries], kind is file, directory, or
                 \* none, also for a directory that cannot be listed
    step,        \* stat, entries, service, loaded, fatal
    entry,       \* how many entries of the directory are done
    loaded,      \* catalog.Connections
    connections, \* manager.connections, from names to configurations
    vanished     \* history: the entry whose file was gone when it was read, 0 for none

catalogVars == <<place, step, entry, loaded, connections, vanished>>

CatalogInit ==
    /\ step = "stat" /\ entry = 0 /\ loaded = <<>> /\ connections = <<>> /\ vanished = 0

-----------------------------------------------------------------------------
(* validateCatalog                                                           *)
\* normalizeDriver: what it does not know counts as absent.
NormalDriver(driver) ==
    CASE driver = "mysql"                      -> "mysql"
      [] driver \in {"postgres", "postgresql"} -> "postgresql"
      [] driver \in {"sqlite", "sqlite3"}      -> "sqlite"
      [] OTHER                                 -> ""

\* inferDriverFromURL; a local path is the scheme "path".
Inferred(url) ==
    CASE url.scheme = "mysql"                      -> "mysql"
      [] url.scheme \in {"postgres", "postgresql"} -> "postgresql"
      [] url.scheme \in {"file", "path"}           -> "sqlite"
      [] OTHER                                     -> ""

\* resolveConnectionDriver, "" for its errors.
ResolvedDriver(c) ==
    IF c.url = NoUrl THEN (IF c.dsn = NoDsn THEN "" ELSE c.driver)
    ELSE IF c.driver \in {"", Inferred(c.url)} THEN Inferred(c.url) ELSE ""

\* normalizeMySQLURL, normalizePostgresURL and normalizeSQLiteURL return no error.
UrlAccepted(driver, c) ==
    IF driver = "sqlite" THEN ~c.username /\ ~c.password
    ELSE /\ c.password => c.username
         /\ c.url.host # "" /\ ~c.url.user
         /\ driver = "mysql" => ~c.url.fragment

\* The native connection string made of the parts.
Derived(c) == <<c.url, c.username, c.password>>

Acceptable(c) ==
    LET driver == ResolvedDriver([c EXCEPT !.driver = NormalDriver(@)])
    IN  /\ c.name.word # 0 /\ driver # ""
        /\ (c.url = NoUrl) # (c.dsn = NoDsn)
        /\ c.url # NoUrl => UrlAccepted(driver, c)

\* The URL stays beside what was derived from it.
Normal_KeepURL(c) ==
    [c EXCEPT !.name = Trim(@),
              !.driver = ResolvedDriver([c EXCEPT !.driver = NormalDriver(@)]),
              !.dsn = IF @ = NoDsn THEN Derived(c) ELSE @]

Normal(c) ==
    [c EXCEPT !.name = Trim(@),
              !.driver = ResolvedDriver([c EXCEPT !.driver = NormalDriver(@)]),
              !.dsn = IF @ = NoDsn THEN Derived(c) ELSE @,
              !.url = NoUrl]

Key(c) == Lower(Trim(c.name))

\* Names are compared as they are written.
Valid_ExactNames(cs) ==
    /\ cs # <<>>
    /\ \A n \in DOMAIN cs : Acceptable(cs[n])
    /\ \A m, n \in DOMAIN cs : Trim(cs[m].name) = Trim(cs[n].name) => m = n

\* validateCatalog returns no error.
Valid(cs) ==
    /\ cs # <<>>
    /\ \A n \in DOMAIN cs : Acceptable(cs[n])
    /\ \A m, n \in DOMAIN cs : Key(cs[m]) = Key(cs[n]) => m = n

\* sort.Slice with the names in lower case.
Before(cs, m, n) ==
    \/ Key(cs[m]).word < Key(cs[n]).word
    \/ Key(cs[m]).word = Key(cs[n]).word /\ m <= n

Position(cs, n) == Cardinality({m \in DOMAIN cs : Before(cs, m, n)})

Validated(cs) ==
    [i \in DOMAIN cs |-> Normal(cs[CHOOSE n \in DOMAIN cs : Position(cs, n) = i])]

-----------------------------------------------------------------------------
(* LoadCatalog.  A file is [readable, connections]; one with a connections    *)
(* key or with a single connection is the list of what it holds.              *)
FileValid(file) == file.readable /\ Valid(file.connections)

CatalogFails == step' = "fatal" /\ UNCHANGED <<place, entry, loaded, connections>>

Stat ==
    /\ step = "stat" /\ UNCHANGED vanished
    /\ CASE place.kind = "none" -> CatalogFails
         [] place.kind = "directory" ->
                step' = "entries" /\ UNCHANGED <<place, entry, loaded, connections>>
         [] place.kind = "file" /\ ~FileValid(place.entries[1].file) -> CatalogFails
         [] place.kind = "file" /\ FileValid(place.entries[1].file) ->
                /\ loaded' = Validated(place.entries[1].file.connections)
                /\ step' = "service"
                /\ UNCHANGED <<place, entry, connections>>

\* A file that is not valid is passed over.
NextEntry_SkipBad ==
    /\ step = "entries" /\ entry < Len(place.entries)
    /\ LET e == place.entries[entry + 1]
       IN  loaded' = IF e.kind # "config" \/ ~FileValid(e.file) THEN loaded
                     ELSE loaded \o Validated(e.file.connections)
    /\ entry' = entry + 1
    /\ UNCHANGED <<place, step, connections, vanished>>

\* Directories, files of other types and *.example.yml are passed over.
NextEntry ==
    /\ step = "entries" /\ entry < Len(place.entries) /\ UNCHANGED vanished
    /\ LET e == place.entries[entry + 1]
       IN  IF e.kind = "config" /\ ~FileValid(e.file) THEN CatalogFails
           ELSE /\ loaded' = IF e.kind # "config" THEN loaded
                             ELSE loaded \o Validated(e.file.connections)
                /\ entry' = entry + 1
                /\ UNCHANGED <<place, step, connections>>

\* A file that was found or listed is gone when it is read.
EntryGone ==
    /\ \/ step = "stat" /\ place.kind = "file"
       \/ /\ step = "entries" /\ entry < Len(place.entries)
          /\ place.entries[entry + 1].kind = "config"
    /\ vanished' = entry + 1
    /\ CatalogFails

Aggregate ==
    /\ step = "entries" /\ entry = Len(place.entries) /\ UNCHANGED vanished
    /\ IF ~Valid(loaded) THEN CatalogFails
       ELSE /\ loaded' = Validated(loaded) /\ step' = "service"
            /\ UNCHANGED <<place, entry, connections>>

\* resolveDialect knows every driver that validation lets pass.
NewService ==
    /\ step = "service"
    /\ connections' =
          [key \in {Lower(loaded[n].name) : n \in DOMAIN loaded} |->
              loaded[Max({n \in DOMAIN loaded : Lower(loaded[n].name) = key})]]
    /\ step' = "loaded"
    /\ UNCHANGED <<place, entry, loaded, vanished>>

CatalogNext == Stat \/ NextEntry \/ EntryGone \/ Aggregate \/ NewService

\* manager.connection: the configuration under a name a client gives, in a set.
ConnectionOf(name) ==
    {connections[key] : key \in {Lower(Trim(name))} \cap DOMAIN connections}

-----------------------------------------------------------------------------
\* All connections of the files that count, as they are written.
Listed(e) == IF e.kind = "config" THEN e.file.connections ELSE <<>>

Written == FlattenSeq([n \in DOMAIN place.entries |-> Listed(place.entries[n])])

\* Loading a directory, whose connections are validated once in their files
\* and once more together, is the same as loading one file with all of them:
\* the second pass refuses and changes nothing the first has made, and only a
\* name that two files share, in any letters, makes it fail.
DirectoryIsOneFile ==
    place.kind = "directory" =>
        /\ step = "service" => Valid(Written) /\ loaded = Validated(Written)
        /\ step = "fatal" /\ entry = Len(place.entries) =>
              \/ Written = <<>>
              \/ \E m, n \in DOMAIN Written : m # n /\ Key(Written[m]) = Key(Written[n])

\* The service has exactly the connections that are written in the files, each
\* found under its name in any spelling and with the credentials and the target
\* written for it.
EachUnderItsName ==
    step = "loaded" =>
        /\ Cardinality(DOMAIN connections) = Len(Written)
        /\ \A n \in DOMAIN Written : \A upper, space \in BOOLEAN :
              LET c == Written[n]
              IN  \A d \in ConnectionOf([word |-> c.name.word, upper |-> upper, space |-> space]) :
                      /\ d.username = c.username /\ d.password = c.password
                      /\ d.dsn \in {c.dsn, Derived(c)} \ {NoDsn} /\ d.url = NoUrl
                      /\ c.url # NoUrl => d.driver = Inferred(c.url)
        /\ \A n \in DOMAIN Written : ConnectionOf(Written[n].name) # {}
=============================================================================
