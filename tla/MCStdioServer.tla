---------------------------- MODULE MCStdioServer ----------------------------
(***************************************************************************)
(* Small streams for TLC: one to three messages, whole frames with every   *)
(* kind of request and frames with a fault, cut anywhere.                  *)
(***************************************************************************)
EXTENDS StdioServer

Request(id, valid, method, params, tool) ==
    [id |-> id, valid |-> valid, method |-> method, params |-> params, tool |-> tool]

Call(id, params, tool) == Request(id, TRUE, "tools/call", params, tool)

Calls == {Call("1", "object", "known"), Call("2", "refused", "known"),
          Call("3", "object", "unknown"), Call("4", "no object", ""), Call("5", "object", "")}
Rest  == {Request("6", TRUE, "initialize", "object", ""), Request("7", FALSE, "", "object", ""),
          Request("null", TRUE, "other", "object", "")}
AllRequests == Calls \cup Rest

Body(r)  == <<Half(r, 1), Half(r, 2)>>
Frame(r) == <<Length(2), Blank>> \o Body(r)
R1 == Call("1", "object", "known")
R6 == Request("6", TRUE, "initialize", "object", "")

Good == {Frame(r) : r \in AllRequests} \cup
        {<<Other, Length(9), Length(3), Blank, Blank>> \o Body(R6), \* two lengths, white space
         <<Length(0), Blank>>, <<Length(1), Blank, Half(R1, 1)>>}
Bad  == {<<Length(1), Blank>> \o Body(R6), <<Length(4), Blank>> \o Body(R6),
         <<Blank>> \o Body(R6), <<Junk>> \o Frame(R6), <<Blank>>}

Few == {Frame(R1), Frame(R6), <<Length(0), Blank>>}
AllMessages ==
    {<<m, n>> : m, n \in Good \cup Bad} \cup {<<m, n, o>> : m, n, o \in Few}
=============================================================================
