-------------------------------- MODULE Startup --------------------------------
(***************************************************************************)
(* main up to the point where it serves: the database service with its     *)
(* catalog first, then the tool registry; an error of either is fatal.     *)
(***************************************************************************)
EXTENDS ConnectionCatalog, ToolRegistry

CONSTANT Settings \* the pairs of a place and a set of specification files to start with

Spellings == [word : Int, upper : BOOLEAN, space : BOOLEAN]
Urls == [scheme : STRING, host : STRING, user : BOOLEAN, fragment : BOOLEAN]
ConnectionConfigs ==
    [name : Spellings, driver : STRING, url : Urls, dsn : Seq(STRING),
     username : BOOLEAN, password : BOOLEAN]
Entries ==
    [kind : {"config", "skipped"},
     file : [readable : BOOLEAN, connections : Seq(ConnectionConfigs)]]
ToolFiles ==
    [rank : Nat, readable : BOOLEAN,
     spec : [name : Spellings, meta : BOOLEAN, action : BOOLEAN, toolType : BOOLEAN,
             viewport : BOOLEAN, compiles : BOOLEAN]]

ASSUME StartupAssumption ==
    \A s \in Settings :
        /\ s[1] \in [kind : {"none", "file", "directory"}, entries : Seq(Entries)]
        /\ s[1].kind = "file" => Len(s[1].entries) = 1 /\ s[1].entries[1].kind = "config"
        /\ s[2] \in SUBSET ToolFiles

vars == <<catalogVars, registryVars>>

Init ==
    /\ \E s \in Settings : place = s[1] /\ files = s[2]
    /\ CatalogInit /\ RegistryInit

LoadCatalog == CatalogNext /\ UNCHANGED registryVars

LoadTools == step = "loaded" /\ RegistryNext /\ UNCHANGED catalogVars

Fatal == "fatal" \in {step, stage}

\* main serves, or log.Fatalf has ended the process.
Over == (Fatal \/ stage = "ready") /\ UNCHANGED vars

Next == LoadCatalog \/ LoadTools \/ Over

Spec == Init /\ [][Next]_vars

-----------------------------------------------------------------------------
(* What README.md 84-92 asks of a configuration, said without the order in   *)
(* which the code looks at it.                                               *)
Native == {"mysql", "postgresql", "sqlite"}

Target(c) ==
    CHOOSE d \in Native : \/ c.url = NoUrl /\ d = NormalDriver(c.driver)
                          \/ c.url # NoUrl /\ d = Inferred(c.url)

Sound(c) ==
    /\ c.name.word # 0
    /\ \/ /\ c.url = NoUrl /\ c.dsn # NoDsn /\ NormalDriver(c.driver) \in Native
          /\ NormalDriver(c.driver) = "sqlite" => ~c.username /\ ~c.password
       \/ /\ c.url # NoUrl /\ c.dsn = NoDsn
          /\ Inferred(c.url) \in Native /\ NormalDriver(c.driver) \in {"", Inferred(c.url)}
          /\ UrlAccepted(Target(c), c)

\* README.md 89, SQLite has no username and no password.  Beside a url they are
\* refused; beside a dsn catalog.go 169 lets them pass and nothing uses them.
Overlooked(c) ==
    /\ c.name.word # 0 /\ c.url = NoUrl /\ c.dsn # NoDsn
    /\ NormalDriver(c.driver) = "sqlite" /\ (c.username \/ c.password)

SoundPlace ==
    /\ place.kind # "none" /\ Written # <<>>
    /\ \A n \in DOMAIN place.entries :
          LET e == place.entries[n]
          IN  e.kind = "config" => e.file.readable /\ e.file.connections # <<>>
    /\ \A n \in DOMAIN Written : Sound(Written[n]) \/ Overlooked(Written[n])
    /\ IsInjective([n \in DOMAIN Written |-> Key(Written[n])])

SoundTools ==
    /\ \A f \in files : f.readable /\ Declared(f.spec) /\ f.spec.compiles
    /\ \A f, g \in files : Normalized(f.spec.name) = Normalized(g.spec.name) => f = g
    /\ {Normalized(f.spec.name) : f \in files} = Handlers

\* The server starts with what its files say, all of it, or not at all: it is
\* ready only with connections that are sound or overlooked and with sound
\* tools, and it gives up only if one of them is not, or if the very file it
\* was about to read has disappeared.
StartsOnSoundFiles ==
    /\ stage = "ready" => SoundPlace /\ SoundTools
    /\ stage = "fatal" => ~SoundTools
    /\ step = "fatal" => ~SoundPlace \/ vanished = entry + 1
=============================================================================
