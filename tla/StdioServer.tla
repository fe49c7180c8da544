----------------------------- MODULE StdioServer -----------------------------
(***************************************************************************)
(* internal/mcp/transport/stdio_controller.go with the dispatcher behind   *)
(* it and main's stdio branch around it: requests are read from a stream,  *)
(* each framed by header lines and a length, and answered one by one.      *)
(*                                                                         *)
(* The stream is a sequence of units of one length: header lines, blank    *)
(* lines, and the two halves of a request's JSON text, which hold colons   *)
(* but no line break.  Nothing but the length separates a payload from     *)
(* what follows it.                                                        *)
(***************************************************************************)
EXTENDS Integers, SequencesExt, FiniteSetsExt

CONSTANTS
    Requests,   \* [id, valid, method, params, tool]
    Messages,   \* what clients write: sequences of sequences of units
    MaxMessages \* how many of them at most

Length(n) == <<"length", n>>    \* Content-Length: n
Other     == <<"other", 0>>     \* another header line
Junk      == <<"junk", 0>>      \* a line without a colon, or a length that is none
Blank     == <<"blank", 0>>
Half(r, h) == <<"half", r, h>>

Units == ({"length"} \X Nat) \cup {Other, Junk, Blank} \cup ({"half"} \X Requests \X {1, 2})

ASSUME StdioAssumption ==
    Messages \subseteq Seq(Seq(Units)) /\ \A s \in Messages : Len(s) <= MaxMessages

VARIABLES
    sent,    \* the messages of the client
    stream,  \* as much of them as was written
    eof,     \* whether the input then ends or stays open
    pos,     \* how much of the stream is read
    pc,      \* header, payload, handle, reply, body, over
    length,  \* contentLength in readFrame
    payload, \* the payload read
    resp,    \* the response to write
    out,     \* what was written: heads and bodies of frames
    exit     \* how Serve ended: none, clean, fatal

vars == <<sent, stream, eof, pos, pc, length, payload, resp, out, exit>>

NoResponse == [id |-> "null", status |-> "none"]

Init ==
    /\ sent \in Messages
    /\ \E n \in 0 .. Len(FlattenSeq(sent)) : stream = SubSeq(FlattenSeq(sent), 1, n)
    /\ eof \in BOOLEAN
    /\ pos = 0 /\ pc = "header" /\ length = -1 /\ payload = <<>>
    /\ resp = NoResponse /\ out = <<>> /\ exit = "none"

Stop(how) == pc' = "over" /\ exit' = how

-----------------------------------------------------------------------------
(* readFrame                                                                 *)
LineEnds == {n \in pos + 1 .. Len(stream) : stream[n][1] # "half"}

\* What ReadString returns, as a header line: a line that begins with a part of
\* a payload has a colon in it and is some header without meaning.
Line == IF pos + 1 \in LineEnds THEN stream[pos + 1] ELSE Other

\* Of two lengths the first counts.
HeaderLine_FirstLength ==
    /\ pc = "header" /\ LineEnds # {}
    /\ pos' = Min(LineEnds)
    /\ CASE Line[1] = "length" -> /\ length' = IF length < 0 THEN Line[2] ELSE length
                                  /\ UNCHANGED <<pc, exit>>
         [] Line = Other       -> UNCHANGED <<length, pc, exit>>
         [] Line = Blank       -> /\ UNCHANGED length
                                  /\ IF length < 0 THEN Stop("fatal")
                                     ELSE pc' = "payload" /\ UNCHANGED exit
         [] Line = Junk        -> UNCHANGED length /\ Stop("fatal")
    /\ UNCHANGED <<sent, stream, eof, payload, resp, out>>

HeaderLine ==
    /\ pc = "header" /\ LineEnds # {}
    /\ pos' = Min(LineEnds)
    /\ CASE Line[1] = "length" -> length' = Line[2] /\ UNCHANGED <<pc, exit>>
         [] Line = Other       -> UNCHANGED <<length, pc, exit>>
         [] Line = Blank       -> /\ UNCHANGED length
                                  /\ IF length < 0 THEN Stop("fatal")
                                     ELSE pc' = "payload" /\ UNCHANGED exit
         [] Line = Junk        -> UNCHANGED length /\ Stop("fatal")
    /\ UNCHANGED <<sent, stream, eof, payload, resp, out>>

\* ReadString gives io.EOF, with or without a part of a line, and Serve takes
\* it for the end of the input.
HeaderEOF ==
    /\ pc = "header" /\ LineEnds = {} /\ eof
    /\ pos' = Len(stream) /\ Stop("clean")
    /\ UNCHANGED <<sent, stream, eof, length, payload, resp, out>>

Left == Len(stream) - pos

ReadPayload ==
    /\ pc = "payload" /\ Left >= length
    /\ payload' = SubSeq(stream, pos + 1, pos + length)
    /\ pos' = pos + length /\ pc' = "handle"
    /\ UNCHANGED <<sent, stream, eof, length, resp, out, exit>>

\* Every end of the input counts as clean.
PayloadEOF_Clean ==
    /\ pc = "payload" /\ Left < length /\ eof
    /\ pos' = Len(stream) /\ Stop("clean")
    /\ UNCHANGED <<sent, stream, eof, length, payload, resp, out>>

\* io.ReadFull gives io.EOF if it has read nothing, else io.ErrUnexpectedEOF.
PayloadEOF ==
    /\ pc = "payload" /\ Left < length /\ eof
    /\ pos' = Len(stream) /\ Stop(IF Left = 0 THEN "clean" ELSE "fatal")
    /\ UNCHANGED <<sent, stream, eof, length, payload, resp, out>>

-----------------------------------------------------------------------------
(* handlePayload and Dispatch                                                *)
Text(p) == SelectSeq(p, LAMBDA u : u # Blank)

\* The request a payload is, if it is one; a line break among its blanks is
\* white space to the JSON decoder.
Decoded(p) == {r \in Requests : Text(p) = <<Half(r, 1), Half(r, 2)>>}

Reply(r, status) == [id |-> r.id, status |-> status]

\* The possible responses to a tools/call that names a tool: an error of the
\* tool is a result; arguments the schema refuses are an error of the request;
\* a panic is recovered by handlePayload.
ToolCall(r) ==
    IF r.tool = "unknown" THEN {"tool error"}
    ELSE IF r.params = "refused" THEN {"invalid params"}
    ELSE {"result", "tool error", "internal error"}

Dispatch(r) ==
    IF r.method \in {"initialize", "tools/list"} THEN {"result"}
    ELSE IF r.method # "tools/call" THEN {"method not found"}
    ELSE IF r.params = "no object" \/ r.tool = "" THEN {"invalid params"}
    ELSE ToolCall(r)

\* The responses to a payload.
Responses(p) ==
    IF Text(p) = <<>> THEN {[id |-> "null", status |-> "invalid request"]}
    ELSE IF Decoded(p) = {} THEN {[id |-> "null", status |-> "parse error"]}
    ELSE UNION {{Reply(r, s) : s \in IF r.valid THEN Dispatch(r) ELSE {"invalid request"}} :
                  r \in Decoded(p)}

Handle ==
    /\ pc = "handle"
    /\ resp' \in Responses(payload)
    /\ pc' = "reply"
    /\ UNCHANGED <<sent, stream, eof, pos, length, payload, out, exit>>

-----------------------------------------------------------------------------
(* writeFrame: the head of the frame, then its body.                         *)
WriteHead ==
    /\ pc = "reply"
    /\ out' = Append(out, [part |-> "head", resp |-> resp])
    /\ pc' = "body"
    /\ UNCHANGED <<sent, stream, eof, pos, length, payload, resp, exit>>

\* A new readFrame starts without a length.
WriteBody ==
    /\ pc = "body"
    /\ out' = Append(out, [part |-> "body", resp |-> resp])
    /\ pc' = "header" /\ length' = -1
    /\ UNCHANGED <<sent, stream, eof, pos, payload, resp, exit>>

\* A write that failed is passed over.
WriteFails_GoOn ==
    /\ pc \in {"reply", "body"}
    /\ pc' = "header" /\ length' = -1
    /\ UNCHANGED <<sent, stream, eof, pos, payload, resp, out, exit>>

\* The client no longer reads.
WriteFails ==
    /\ pc \in {"reply", "body"}
    /\ Stop("fatal")
    /\ UNCHANGED <<sent, stream, eof, pos, length, payload, resp, out>>

\* Serve waits for input that does not come.
Waiting ==
    /\ ~eof
    /\ \/ pc = "header" /\ LineEnds = {}
       \/ pc = "payload" /\ Left < length

\* Serve waits, or it has returned and main with it: after a clean end through
\* its deferred Close, else by Fatalf.
Idle == (Waiting \/ pc = "over") /\ UNCHANGED vars

Step ==
    \/ HeaderLine \/ HeaderEOF \/ ReadPayload \/ PayloadEOF \/ Handle
    \/ WriteHead \/ WriteBody \/ WriteFails

Next == Step \/ Idle

Spec == Init /\ [][Next]_vars

\* The loop goes on: handlers return (DatabaseService!EveryCallReturns), and
\* a client that stops reading its answers without closing its end is left out.
FairSpec == Spec /\ WF_vars(Step)

-----------------------------------------------------------------------------
(* What the client wrote, said of the whole stream.                          *)
\* m is one frame: header lines with a length, the last of which is that of all
\* that follows the first blank line.
IsFrame(m) ==
    \E h \in DOMAIN m :
        /\ m[h] = Blank
        /\ \A n \in 1 .. h - 1 : m[n][1] \in {"length", "other"}
        /\ \E n \in 1 .. h - 1 : /\ m[n] = Length(Len(m) - h)
                                 /\ \A l \in n + 1 .. h - 1 : m[l] = Other

Payload(m) == SubSeq(m, Min({h \in DOMAIN m : m[h] = Blank}) + 1, Len(m))

Written(n) == Len(FlattenSeq(SubSeq(sent, 1, n)))

\* The first n messages are frames and arrived whole.
Whole(n) == n <= Len(sent) /\ Written(n) <= Len(stream) /\ \A l \in 1 .. n : IsFrame(sent[l])

\* Of heads and bodies in turn, the bodies.
Bodies == [n \in 1 .. Len(out) \div 2 |-> out[2 * n]]

\* The answers are whole frames, in the order of the requests, one for each
\* frame that arrived whole, with its id; only the last may be cut short, and
\* then Serve has failed.  Up to the first message that is no frame.
AnsweredInOrder ==
    /\ \A n \in DOMAIN out : out[n].part = (IF n % 2 = 1 THEN "head" ELSE "body")
    /\ \A n \in DOMAIN out : n % 2 = 0 => out[n].resp = out[n - 1].resp
    /\ Len(out) % 2 = 1 => pc = "body" \/ exit = "fatal"
    /\ \A n \in 1 .. Len(sent) :
          Whole(n) /\ n \in DOMAIN Bodies => Bodies[n].resp \in Responses(Payload(sent[n]))
    /\ \A n \in 1 .. Len(sent) : Whole(n) /\ (Waiting \/ exit = "clean") => n \in DOMAIN Bodies

\* When a client that writes frames ends in the middle of a payload, Serve
\* does not return as if the client had been done.
CutIsNoticed ==
    exit = "clean" /\ (\A m \in ToSet(sent) : IsFrame(m)) =>
        ~ \E n \in 1 .. Len(sent) :
            /\ Whole(n - 1) /\ Written(n) > Len(stream)
            /\ Written(n) - Len(Payload(sent[n])) < Len(stream)

\* Every frame that arrived whole is answered, even if the client then neither
\* writes nor closes, unless writing fails.
EveryFrameAnswered ==
    \A n \in 1 .. MaxMessages : Whole(n) ~> (n \in DOMAIN Bodies \/ exit = "fatal")
=============================================================================
