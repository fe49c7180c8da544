------------------------------ MODULE StdioProofs ------------------------------
(***************************************************************************)
(* Theorems about StdioServer, for every sequence of messages a client may *)
(* write, cut anywhere.                                                    *)
(***************************************************************************)
EXTENDS StdioServer, SequenceFacts

LEMMA MinIs ==
    ASSUME NEW S \in SUBSET Nat, S # {}
    PROVE  Min(S) \in S /\ \A y \in S : Min(S) <= y
BY Least DEF Min

LEMMA UnitKinds ==
    /\ \A u \in Units : u[1] # "half" =>
          \/ u[1] = "length" /\ u[2] \in Nat /\ u = Length(u[2])
          \/ u \in {Other, Junk, Blank}
    /\ Other[1] = "other" /\ Junk[1] = "junk" /\ Blank[1] = "blank"
    /\ Other # Junk /\ Other # Blank /\ Junk # Blank
    /\ \A n : Length(n)[1] = "length" /\ Length(n)[2] = n
    /\ Other \in Units
<1>1. /\ Other[1] = "other" /\ Junk[1] = "junk" /\ Blank[1] = "blank"
      /\ Other # Junk /\ Other # Blank /\ Junk # Blank
  BY DEF Other, Junk, Blank
<1>2. \A n : Length(n)[1] = "length" /\ Length(n)[2] = n
  BY DEF Length
<1>3. ASSUME NEW u \in Units, u[1] # "half"
      PROVE  \/ u[1] = "length" /\ u[2] \in Nat /\ u = Length(u[2])
             \/ u \in {Other, Junk, Blank}
  <2>1. CASE u \in {"length"} \X Nat
    BY <2>1 DEF Length
  <2>2. CASE u \in {"half"} \X Requests \X {1, 2}
    BY <1>3, <2>2
  <2> QED BY <2>1, <2>2 DEF Units
<1> QED BY <1>1, <1>2, <1>3 DEF Units

-----------------------------------------------------------------------------
(* The stream and the messages it is made of                                 *)
Input ==
    /\ sent \in Messages
    /\ \E n \in 0 .. Len(FlattenSeq(sent)) : stream = SubSeq(FlattenSeq(sent), 1, n)

LEMMA StreamIs ==
    ASSUME Input
    PROVE  /\ sent \in Seq(Seq(Units)) /\ Len(sent) \in Nat
           /\ \A n \in 1 .. Len(sent) : sent[n] \in Seq(Units) /\ Len(sent[n]) \in Nat
           /\ Written(0) = 0 /\ \A n \in 0 .. Len(sent) : Written(n) \in Nat
           /\ \A n \in 1 .. Len(sent) : Written(n) = Written(n - 1) + Len(sent[n])
           /\ \A j, k \in 0 .. Len(sent) : j <= k => Written(j) <= Written(k)
           /\ stream \in Seq(Units) /\ Len(stream) \in Nat /\ DOMAIN stream = 1 .. Len(stream)
           /\ \A i \in 1 .. Len(stream) : stream[i] \in Units
           /\ Len(stream) <= Written(Len(sent))
           /\ \A n \in 1 .. Len(sent) : \A p \in 1 .. Len(sent[n]) :
                 Written(n - 1) + p <= Len(stream) => stream[Written(n - 1) + p] = sent[n][p]
<1> DEFINE N == Len(sent)
           F == FlattenSeq(sent)
<1>1. sent \in Seq(Seq(Units))
  BY StdioAssumption DEF Input
<1>2. N \in Nat /\ \A n \in 1 .. N : sent[n] \in Seq(Units) /\ Len(sent[n]) \in Nat
  BY <1>1, LengthsOf
<1>3. PICK off : Offsets(sent, off) /\ F \in Seq(Units) /\ Joined(sent, off, N, F)
  BY <1>1, FlattenIs
<1>4. \A n \in 0 .. N : Written(n) = off[n]
  BY <1>1, <1>3, PrefixLength DEF Written
<1>5. /\ Written(0) = 0 /\ \A n \in 0 .. N : Written(n) \in Nat
      /\ \A n \in 1 .. N : Written(n) = Written(n - 1) + Len(sent[n])
  <2>1. /\ off[0] = 0 /\ \A n \in 0 .. N : off[n] \in Nat
        /\ \A n \in 1 .. N : off[n] = off[n - 1] + Len(sent[n])
    BY <1>3 DEF Offsets
  <2>2. 0 \in 0 .. N /\ \A n \in 1 .. N : n \in 0 .. N /\ n - 1 \in 0 .. N
    BY <1>2
  <2> HIDE DEF N
  <2> QED BY <1>4, <2>1, <2>2
<1>6. \A j, k \in 0 .. N : j <= k => Written(j) <= Written(k)
  BY <1>1, <1>3, <1>4, OffsetsGrow
<1>7. PICK l \in 0 .. Len(F) : stream = SubSeq(F, 1, l)
  BY DEF Input
<1> HIDE DEF F
<1>8. stream \in Seq(Units) /\ Len(stream) = l /\ \A i \in 1 .. l : stream[i] = F[i]
  BY <1>3, <1>7, PrefixIs
<1>9. Len(F) = Written(N)
  <2>1. N \in 0 .. N
    BY <1>2
  <2> QED BY <1>3, <1>4, <2>1 DEF Joined
<1>10. Len(stream) \in Nat /\ Len(stream) <= Written(N) /\ DOMAIN stream = 1 .. Len(stream)
       /\ \A i \in 1 .. Len(stream) : stream[i] \in Units
  <2>1. Len(F) \in Nat
    BY <1>3, LenProperties
  <2>2. l \in Nat /\ l <= Len(F)
    BY <2>1
  <2>3. DOMAIN stream = 1 .. Len(stream) /\ \A i \in 1 .. Len(stream) : stream[i] \in Units
    BY <1>8, LenProperties, ElementOfSeq
  <2> QED BY <1>8, <1>9, <2>2, <2>3
<1>11. ASSUME NEW n \in 1 .. N, NEW p \in 1 .. Len(sent[n]), Written(n - 1) + p <= Len(stream)
       PROVE  stream[Written(n - 1) + p] = sent[n][p]
  <2>1. n - 1 \in 0 .. N /\ Written(n - 1) \in Nat /\ p \in Nat \ {0}
    BY <1>2, <1>5
  <2>2. Written(n - 1) + p \in 1 .. l
    BY <1>8, <1>10, <1>11, <2>1
  <2>3. F[off[n - 1] + p] = sent[n][p]
    BY <1>3 DEF Joined
  <2> QED BY <1>4, <1>8, <2>1, <2>2, <2>3
<1> QED BY <1>1, <1>2, <1>5, <1>6, <1>8, <1>10, <1>11

-----------------------------------------------------------------------------
(* Frames                                                                    *)
BlankAt(m) == Min({h \in DOMAIN m : m[h] = Blank})

LEMMA FrameIs ==
    ASSUME NEW m \in Seq(Units), IsFrame(m)
    PROVE  /\ Len(m) \in Nat /\ DOMAIN m = 1 .. Len(m) /\ BlankAt(m) \in 1 .. Len(m)
           /\ m[BlankAt(m)] = Blank
           /\ \A n \in 1 .. BlankAt(m) - 1 : m[n][1] \in {"length", "other"}
           /\ \E n \in 1 .. BlankAt(m) - 1 : /\ m[n] = Length(Len(m) - BlankAt(m))
                                             /\ \A l \in n + 1 .. BlankAt(m) - 1 : m[l] = Other
<1> DEFINE B == {h \in DOMAIN m : m[h] = Blank}
<1>1. Len(m) \in Nat /\ DOMAIN m = 1 .. Len(m)
  BY LenProperties
<1>2. PICK h \in DOMAIN m :
         /\ m[h] = Blank
         /\ \A n \in 1 .. h - 1 : m[n][1] \in {"length", "other"}
         /\ \E n \in 1 .. h - 1 : /\ m[n] = Length(Len(m) - h)
                                  /\ \A l \in n + 1 .. h - 1 : m[l] = Other
  BY DEF IsFrame
<1>3. B \in SUBSET Nat /\ h \in B
  BY <1>1, <1>2
<1>4. Min(B) \in B /\ \A y \in B : Min(B) <= y
  <2> HIDE DEF B
  <2> QED BY <1>3, MinIs
<1>5. Min(B) = h
  <2>1. Min(B) \in 1 .. Len(m) /\ m[Min(B)] = Blank /\ Min(B) <= h /\ h \in 1 .. Len(m)
    BY <1>1, <1>3, <1>4
  <2> DEFINE b == Min(B)
  <2>2. b \in Nat /\ h \in Nat /\ b >= 1 /\ m[b] = Blank /\ b <= h
    <3> HIDE DEF B
    <3> QED BY <1>1, <2>1
  <2> HIDE DEF b
  <2>3. b \notin 1 .. h - 1
    BY <1>2, <2>2, UnitKinds
  <2>4. b = h
    BY <2>2, <2>3
  <2> QED BY <2>4 DEF b
<1> QED BY <1>1, <1>2, <1>5 DEF BlankAt

-----------------------------------------------------------------------------
(* The invariant                                                             *)
Statuses ==
    {"none", "result", "tool error", "invalid params", "invalid request", "method not found",
     "parse error", "internal error"}
Answers == [id : {r.id : r \in Requests} \cup {"null"}, status : Statuses]

\* How many requests are answered.
Count == Len(out) \div 2

StdioTypes ==
    /\ Input /\ pos \in 0 .. Len(stream)
    /\ length \in Nat \cup {-1} /\ (pc = "payload" => length \in Nat)
    /\ resp \in Answers /\ out \in Seq([part : {"head", "body"}, resp : Answers])
    /\ pc \in {"header", "payload", "handle", "reply", "body", "over"}
    /\ exit \in {"none", "clean", "fatal"} /\ (pc = "over" <=> exit # "none")

\* Only the last frame of an answer may be cut short.
InTurn ==
    /\ \A n \in DOMAIN out : out[n].part = (IF n % 2 = 1 THEN "head" ELSE "body")
    /\ \A n \in DOMAIN out : n % 2 = 0 => out[n].resp = out[n - 1].resp
    /\ Len(out) % 2 = 1 => pc = "body" \/ exit = "fatal"
    /\ pc = "body" => Len(out) % 2 = 1 /\ out[Len(out)].resp = resp

Answered ==
    \A n \in 1 .. Count :
        n <= Len(sent) /\ (\A l \in 1 .. n : IsFrame(sent[l])) =>
            out[2 * n].resp \in Responses(Payload(sent[n]))

\* The last length of the first o lines of m is len, or they have none.
LengthAfter(m, o, len) ==
    \/ len = -1 /\ \A n \in 1 .. o : m[n] = Other
    \/ \E n \in 1 .. o : m[n] = Length(len) /\ \A l \in n + 1 .. o : m[l] = Other

\* Serve is in the message m, of which it has read o units.
InFrame(m, o) ==
    /\ pc = "header" => o < BlankAt(m) /\ LengthAfter(m, o, length)
    /\ pc = "payload" => o = BlankAt(m) /\ length = Len(m) - o
    /\ pc = "handle" => o = Len(m) /\ payload = Payload(m)
    /\ pc \in {"reply", "body"} => o = Len(m) /\ resp \in Responses(Payload(m))
    /\ exit = "clean" => /\ Len(stream) <= Written(Count) + BlankAt(m)
                         /\ Len(stream) < Written(Count) + Len(m)

\* As long as the answered messages were frames, Serve has read them to their
\* end and is in the next one, if that is a frame too.
SoFar == \A l \in 1 .. Count : l <= Len(sent) => IsFrame(sent[l])

Synced ==
    SoFar =>
        /\ Count <= Len(sent) /\ Written(Count) <= pos
        /\ Count = Len(sent) => pc \in {"header", "over"}
        /\ Count < Len(sent) /\ IsFrame(sent[Count + 1]) =>
              InFrame(sent[Count + 1], pos - Written(Count))

StdioInv == StdioTypes /\ InTurn /\ Answered /\ Synced

LEMMA ResponsesAre == \A p : Responses(p) \subseteq Answers
<1> SUFFICES ASSUME NEW p, NEW a \in Responses(p) PROVE a \in Answers
  OBVIOUS
<1>1. \A r : Dispatch(r) \subseteq Statuses
  BY DEF Dispatch, ToolCall, Statuses
<1>2. "invalid request" \in Statuses /\ "parse error" \in Statuses
  BY DEF Statuses
<1>3. \A r \in Requests : \A s \in Statuses : Reply(r, s) \in Answers
  BY DEF Reply, Answers
<1>4. Decoded(p) \subseteq Requests
  BY DEF Decoded
<1>5. \A s \in Statuses : [id |-> "null", status |-> s] \in Answers
  BY DEF Answers
<1>6. CASE Text(p) = <<>>
  BY <1>2, <1>5, <1>6 DEF Responses
<1>7. CASE Text(p) # <<>> /\ Decoded(p) = {}
  BY <1>2, <1>5, <1>7 DEF Responses
<1>8. CASE Text(p) # <<>> /\ Decoded(p) # {}
  <2>1. PICK r \in Decoded(p) : \E s \in IF r.valid THEN Dispatch(r) ELSE {"invalid request"} :
           a = Reply(r, s)
    BY <1>8 DEF Responses
  <2>2. \A s \in IF r.valid THEN Dispatch(r) ELSE {"invalid request"} : s \in Statuses
    BY <1>1, <1>2
  <2> QED BY <1>3, <1>4, <2>1, <2>2
<1> QED BY <1>6, <1>7, <1>8

-----------------------------------------------------------------------------
(* Steps                                                                     *)
LEMMA LineEndsAre ==
    ASSUME StdioTypes
    PROVE  /\ LineEnds \subseteq pos + 1 .. Len(stream)
           /\ LineEnds # {} => Min(LineEnds) \in LineEnds /\ \A n \in LineEnds : Min(LineEnds) <= n
           /\ pos \in Nat /\ Len(stream) \in Nat
<1>1. pos \in Nat /\ Len(stream) \in Nat
  BY StreamIs DEF StdioTypes
<1>2. LineEnds \subseteq pos + 1 .. Len(stream) /\ LineEnds \in SUBSET Nat
  BY <1>1 DEF LineEnds
<1> QED BY <1>1, <1>2, MinIs

LEMMA LineIs ==
    ASSUME StdioTypes, LineEnds # {}
    PROVE  (\E n \in Nat : Line = Length(n)) \/ Line \in {Other, Junk, Blank}
<1>1. CASE pos + 1 \in LineEnds
  <2>1. stream[pos + 1] \in Units /\ stream[pos + 1][1] # "half" /\ Line = stream[pos + 1]
    <3>1. pos + 1 \in 1 .. Len(stream)
      BY <1>1, LineEndsAre
    <3> QED BY <1>1, <3>1, StreamIs DEF StdioTypes, LineEnds, Line
  <2> QED BY <2>1, UnitKinds
<1>2. CASE pos + 1 \notin LineEnds
  BY <1>2 DEF Line
<1> QED BY <1>1, <1>2

LEMMA HeaderCases ==
    ASSUME StdioTypes, HeaderLine
    PROVE  /\ pc = "header" /\ pos' = Min(LineEnds) /\ pos' \in pos + 1 .. Len(stream)
           /\ UNCHANGED <<sent, stream, eof, payload, resp, out>>
           /\ \/ \E n \in Nat : Line = Length(n) /\ length' = n /\ UNCHANGED <<pc, exit>>
              \/ Line = Other /\ UNCHANGED <<length, pc, exit>>
              \/ Line = Blank /\ length >= 0 /\ length' = length /\ pc' = "payload" /\ exit' = exit
              \/ Line = Blank /\ length < 0 /\ length' = length /\ pc' = "over" /\ exit' = "fatal"
              \/ Line = Junk /\ length' = length /\ pc' = "over" /\ exit' = "fatal"
<1>1. /\ pc = "header" /\ pos' = Min(LineEnds) /\ LineEnds # {}
      /\ UNCHANGED <<sent, stream, eof, payload, resp, out>>
  BY DEF HeaderLine
<1>2. pos' \in pos + 1 .. Len(stream)
  BY <1>1, LineEndsAre
<1>3. ASSUME NEW n \in Nat, Line = Length(n) PROVE length' = n /\ UNCHANGED <<pc, exit>>
  <2>1. Line[1] = "length" /\ Line[2] = n
    BY <1>3, UnitKinds
  <2>2. Line # Other /\ Line # Blank /\ Line # Junk
    BY <2>1, UnitKinds
  <2> QED BY <2>1, <2>2 DEF HeaderLine
<1>4. ASSUME Line = Other PROVE UNCHANGED <<length, pc, exit>>
  <2>1. Line[1] # "length" /\ Line # Blank /\ Line # Junk
    BY <1>4, UnitKinds
  <2> QED BY <1>4, <2>1 DEF HeaderLine
<1>5. ASSUME Line = Blank
      PROVE  /\ length' = length
             /\ IF length < 0 THEN pc' = "over" /\ exit' = "fatal" ELSE pc' = "payload" /\ exit' = exit
  <2>1. Line[1] # "length" /\ Line # Other /\ Line # Junk
    BY <1>5, UnitKinds
  <2> QED BY <1>5, <2>1 DEF HeaderLine, Stop
<1>6. ASSUME Line = Junk PROVE length' = length /\ pc' = "over" /\ exit' = "fatal"
  <2>1. Line[1] # "length" /\ Line # Other /\ Line # Blank
    BY <1>6, UnitKinds
  <2> QED BY <1>6, <2>1 DEF HeaderLine, Stop
<1>7. length \in Int
  BY DEF StdioTypes
<1> QED BY <1>1, <1>2, <1>3, <1>4, <1>5, <1>6, <1>7, LineIs

LEMMA TypesStep ==
    ASSUME StdioTypes, [Next]_vars
    PROVE  StdioTypes' /\ UNCHANGED <<sent, stream, eof>> /\ pos <= pos'
<1> DEFINE Parts == [part : {"head", "body"}, resp : Answers]
<1>1. /\ pos \in Nat /\ Len(stream) \in Nat /\ length \in Int
      /\ Answers' = Answers
  <2>1. Answers' = Answers
    BY DEF Answers, Statuses
  <2>2. length \in Int
    BY DEF StdioTypes
  <2> QED BY <2>1, <2>2, LineEndsAre
<1>2. UNCHANGED <<sent, stream, eof>>
  BY DEF Next, Step, HeaderLine, HeaderEOF, ReadPayload, PayloadEOF, Handle, WriteHead, WriteBody,
         WriteFails, Idle, vars
<1>3. Input'
  BY <1>2 DEF StdioTypes, Input
<1>4. CASE HeaderLine
  BY <1>1, <1>2, <1>3, <1>4, HeaderCases DEF StdioTypes
<1>5. CASE HeaderEOF \/ PayloadEOF
  BY <1>1, <1>2, <1>3, <1>5 DEF HeaderEOF, PayloadEOF, Stop, StdioTypes
<1>6. CASE ReadPayload
  <2>1. length \in Nat /\ Len(stream) - pos >= length /\ pos' = pos + length
    BY <1>6 DEF ReadPayload, StdioTypes, Left
  <2> QED BY <1>1, <1>2, <1>3, <1>6, <2>1 DEF ReadPayload, StdioTypes
<1>7. CASE Handle
  <2>1. resp' \in Answers
    BY <1>7, ResponsesAre DEF Handle
  <2> QED BY <1>1, <1>2, <1>3, <1>7, <2>1 DEF Handle, StdioTypes
<1>8. CASE WriteHead
  <2>1. out \in Seq(Parts) /\ [part |-> "head", resp |-> resp] \in Parts
    BY DEF StdioTypes
  <2>2. out' \in Seq(Parts)
    BY <1>8, <2>1, AppendProperties DEF WriteHead
  <2> QED BY <1>1, <1>2, <1>3, <1>8, <2>2 DEF WriteHead, StdioTypes
<1>9. CASE WriteBody
  <2>1. out \in Seq(Parts) /\ [part |-> "body", resp |-> resp] \in Parts
    BY DEF StdioTypes
  <2>2. out' \in Seq(Parts)
    BY <1>9, <2>1, AppendProperties DEF WriteBody
  <2> QED BY <1>1, <1>2, <1>3, <1>9, <2>2 DEF WriteBody, StdioTypes
<1>10. CASE WriteFails
  BY <1>1, <1>2, <1>3, <1>10 DEF WriteFails, Stop, StdioTypes
<1>11. CASE Idle \/ UNCHANGED vars
  BY <1>1, <1>2, <1>3, <1>11 DEF Idle, vars, StdioTypes
<1> QED BY <1>4, <1>5, <1>6, <1>7, <1>8, <1>9, <1>10, <1>11 DEF Next, Step

\* What is written: whole answers, and perhaps a head.
LEMMA OutIs ==
    ASSUME StdioTypes
    PROVE  /\ Len(out) \in Nat /\ DOMAIN out = 1 .. Len(out) /\ Count \in Nat
           /\ Len(out) % 2 \in {0, 1} /\ Len(out) = 2 * Count + (Len(out) % 2)
<1>1. Len(out) \in Nat /\ DOMAIN out = 1 .. Len(out)
  BY LenProperties DEF StdioTypes
<1>2. ASSUME NEW n \in Nat
      PROVE  n \div 2 \in Nat /\ n % 2 \in {0, 1} /\ n = 2 * (n \div 2) + (n % 2)
  OBVIOUS
<1> QED BY <1>1, <1>2 DEF Count

LEMMA AppendOut ==
    ASSUME StdioTypes, NEW e \in [part : {"head", "body"}, resp : Answers], out' = Append(out, e)
    PROVE  /\ Len(out') = Len(out) + 1 /\ DOMAIN out' = 1 .. Len(out) + 1
           /\ \A n \in 1 .. Len(out) : out'[n] = out[n]
           /\ out'[Len(out) + 1] = e
<1> DEFINE Parts == [part : {"head", "body"}, resp : Answers]
<1>1. out \in Seq(Parts) /\ e \in Parts
  BY DEF StdioTypes
<1> HIDE DEF Parts
<1>2. /\ out' \in Seq(Parts) /\ Len(out') = Len(out) + 1
      /\ \A n \in 1 .. Len(out) : out'[n] = out[n]
      /\ out'[Len(out) + 1] = e
  BY <1>1, AppendProperties
<1> QED BY <1>2, LenProperties

LEMMA TurnStep ==
    ASSUME StdioTypes, InTurn, [Next]_vars
    PROVE  InTurn'
<1>1. /\ Len(out) \in Nat /\ DOMAIN out = 1 .. Len(out) /\ Len(out) % 2 \in {0, 1}
      /\ exit = "fatal" => pc = "over"
  BY OutIs DEF StdioTypes
<1>2. CASE UNCHANGED out /\ ~WriteHead /\ ~WriteBody
  <2>1. /\ pc' = "body" => pc = "body" /\ resp' = resp
        /\ exit = "fatal" => exit' = "fatal"
        /\ pc = "body" => pc' = "body" \/ exit' = "fatal"
    <3>1. CASE HeaderLine
      BY <1>1, <3>1, HeaderCases
    <3>2. CASE HeaderEOF \/ ReadPayload \/ PayloadEOF \/ Handle \/ WriteFails
      BY <1>1, <3>2 DEF HeaderEOF, ReadPayload, PayloadEOF, Handle, WriteFails, Stop
    <3>3. CASE Idle \/ UNCHANGED vars
      BY <3>3 DEF Idle, vars
    <3> QED BY <1>2, <3>1, <3>2, <3>3 DEF Next, Step
  <2> QED BY <1>2, <2>1 DEF InTurn
<1>3. CASE WriteHead
  <2> DEFINE e == [part |-> "head", resp |-> resp]
             N == Len(out)
  <2>1. e \in [part : {"head", "body"}, resp : Answers] /\ out' = Append(out, e) /\ pc = "reply"
        /\ pc' = "body" /\ resp' = resp
    BY <1>3 DEF WriteHead, StdioTypes
  <2>2. /\ Len(out') = N + 1 /\ DOMAIN out' = 1 .. N + 1
        /\ \A n \in 1 .. N : out'[n] = out[n]
        /\ out'[N + 1] = e
    <3> HIDE DEF e
    <3> QED BY <2>1, AppendOut
  <2>3. N % 2 = 0 /\ N \in Nat /\ (N + 1) % 2 = 1
    <3>1. N \in Nat /\ N % 2 = 0
      BY <1>1, <2>1 DEF InTurn
    <3> HIDE DEF N
    <3> QED BY <3>1
  <2>4. out'[N + 1].part = "head" /\ out'[N + 1].resp = resp
    BY <2>2
  <2>5. /\ \A n \in 1 .. N : out[n].part = (IF n % 2 = 1 THEN "head" ELSE "body")
        /\ \A n \in 1 .. N : n % 2 = 0 => out[n].resp = out[n - 1].resp
    BY <1>1 DEF InTurn
  <2> HIDE DEF e, N
  <2>6. \A n \in 1 .. N + 1 : n \in 1 .. N \/ n = N + 1
    BY <2>3
  <2>7. \A n \in 1 .. N + 1 : out'[n].part = (IF n % 2 = 1 THEN "head" ELSE "body")
    BY <2>2, <2>3, <2>4, <2>5, <2>6
  <2>8. \A n \in 1 .. N : n % 2 = 0 => n - 1 \in 1 .. N
    BY <2>3
  <2>9. \A n \in 1 .. N + 1 : n % 2 = 0 => out'[n].resp = out'[n - 1].resp
    BY <2>2, <2>3, <2>5, <2>6, <2>8
  <2> QED BY <2>1, <2>2, <2>3, <2>4, <2>7, <2>9 DEF InTurn
<1>4. CASE WriteBody
  <2> DEFINE e == [part |-> "body", resp |-> resp]
             N == Len(out)
  <2>1. e \in [part : {"head", "body"}, resp : Answers] /\ out' = Append(out, e) /\ pc = "body"
        /\ pc' = "header" /\ resp' = resp
    BY <1>4 DEF WriteBody, StdioTypes
  <2>2. /\ Len(out') = N + 1 /\ DOMAIN out' = 1 .. N + 1
        /\ \A n \in 1 .. N : out'[n] = out[n]
        /\ out'[N + 1] = e
    <3> HIDE DEF e
    <3> QED BY <2>1, AppendOut
  <2>3. N % 2 = 1 /\ N \in Nat /\ (N + 1) % 2 = 0 /\ out[N].resp = resp /\ N \in 1 .. N
    <3>1. N \in Nat /\ N % 2 = 1 /\ out[N].resp = resp
      BY <1>1, <2>1 DEF InTurn
    <3> HIDE DEF N
    <3> QED BY <3>1
  <2>4. out'[N + 1].part = "body" /\ out'[N + 1].resp = resp
    BY <2>2
  <2>5. /\ \A n \in 1 .. N : out[n].part = (IF n % 2 = 1 THEN "head" ELSE "body")
        /\ \A n \in 1 .. N : n % 2 = 0 => out[n].resp = out[n - 1].resp
    BY <1>1 DEF InTurn
  <2> HIDE DEF e, N
  <2>6. \A n \in 1 .. N + 1 : n \in 1 .. N \/ n = N + 1
    BY <2>3
  <2>7. \A n \in 1 .. N + 1 : out'[n].part = (IF n % 2 = 1 THEN "head" ELSE "body")
    BY <2>2, <2>3, <2>4, <2>5, <2>6
  <2>8. \A n \in 1 .. N : n % 2 = 0 => n - 1 \in 1 .. N
    BY <2>3
  <2>9. \A n \in 1 .. N : n % 2 = 0 => out'[n].resp = out'[n - 1].resp
    BY <2>2, <2>5, <2>8
  <2>10. out'[N + 1].resp = out'[N].resp
    BY <2>2, <2>3, <2>4
  <2>11. \A n \in 1 .. N + 1 : n % 2 = 0 => out'[n].resp = out'[n - 1].resp
    <3> SUFFICES ASSUME NEW n \in 1 .. N + 1, n % 2 = 0 PROVE out'[n].resp = out'[n - 1].resp
      OBVIOUS
    <3>1. CASE n \in 1 .. N
      BY <2>9, <3>1
    <3>2. CASE n = N + 1
      <4>1. n - 1 = N
        BY <2>3, <3>2
      <4> QED BY <2>10, <3>2, <4>1, Zenon
    <3> QED BY <2>6, <3>1, <3>2
  <2>12. Len(out') % 2 = 0 /\ DOMAIN out' = 1 .. N + 1
    BY <2>2, <2>3
  <2>13. Len(out') % 2 # 1 /\ pc' # "body"
    BY <2>1, <2>12
  <2> HIDE DEF N
  <2> QED BY <2>7, <2>11, <2>12, <2>13 DEF InTurn
<1>5. (UNCHANGED out /\ ~WriteHead /\ ~WriteBody) \/ WriteHead \/ WriteBody
  BY DEF Next, Step, vars, HeaderLine, HeaderEOF, ReadPayload, PayloadEOF, Handle, WriteFails, Idle
<1> QED BY <1>2, <1>3, <1>4, <1>5

LEMMA CountStep ==
    ASSUME StdioTypes, InTurn, [Next]_vars
    PROVE  /\ IF WriteBody THEN Count' = Count + 1 /\ out'[2 * Count'].resp = resp ELSE Count' = Count
           /\ \A n \in 1 .. Count : out'[2 * n] = out[2 * n]
<1>1. /\ Len(out) \in Nat /\ Count \in Nat
      /\ Len(out) % 2 \in {0, 1} /\ Len(out) = 2 * Count + (Len(out) % 2)
      /\ exit = "fatal" => pc = "over"
  BY OutIs DEF StdioTypes
<1>2. \A n \in 1 .. Count : 2 * n \in 1 .. Len(out)
  BY <1>1
<1>3. CASE WriteHead
  <2> DEFINE e == [part |-> "head", resp |-> resp]
  <2>1. /\ e \in [part : {"head", "body"}, resp : Answers] /\ out' = Append(out, e)
        /\ pc = "reply" /\ pc' = "body"
    BY <1>3 DEF WriteHead, StdioTypes
  <2> HIDE DEF e
  <2>2. Len(out') = Len(out) + 1 /\ \A n \in 1 .. Len(out) : out'[n] = out[n]
    BY <2>1, AppendOut
  <2>3. Len(out) % 2 = 0 /\ ~WriteBody
    BY <1>1, <2>1 DEF InTurn, WriteBody
  <2>4. Count' = Len(out') \div 2
    BY DEF Count
  <2>5. Count' = Count
    BY <1>1, <2>2, <2>3, <2>4
  <2> QED BY <1>2, <2>2, <2>3, <2>5
<1>4. CASE WriteBody
  <2> DEFINE e == [part |-> "body", resp |-> resp]
  <2>1. e \in [part : {"head", "body"}, resp : Answers] /\ out' = Append(out, e) /\ pc = "body"
    BY <1>4 DEF WriteBody, StdioTypes
  <2>2. e.resp = resp
    OBVIOUS
  <2> HIDE DEF e
  <2>3. /\ Len(out') = Len(out) + 1 /\ \A n \in 1 .. Len(out) : out'[n] = out[n]
        /\ out'[Len(out) + 1] = e
    BY <2>1, AppendOut
  <2>4. Len(out) % 2 = 1
    BY <2>1 DEF InTurn
  <2>5. Count' = Len(out') \div 2
    BY DEF Count
  <2>6. Count' = Count + 1 /\ 2 * Count' = Len(out) + 1
    BY <1>1, <2>3, <2>4, <2>5
  <2> QED BY <1>2, <1>4, <2>2, <2>3, <2>6
<1>5. CASE ~WriteHead /\ ~WriteBody
  <2>1. out' = out
    BY <1>5 DEF Next, Step, vars, HeaderLine, HeaderEOF, ReadPayload, PayloadEOF, Handle, WriteFails, Idle
  <2> QED BY <1>5, <2>1 DEF Count
<1> QED BY <1>3, <1>4, <1>5

\* Where Serve is in the message that is next.
LEMMA InMessage ==
    ASSUME StdioTypes, Count < Len(sent)
    PROVE  /\ Count \in Nat /\ Count + 1 \in 1 .. Len(sent) /\ Count \in 0 .. Len(sent)
           /\ sent[Count + 1] \in Seq(Units) /\ Written(Count) \in Nat
           /\ pos \in Nat /\ Len(stream) \in Nat
           /\ Written(Count + 1) = Written(Count) + Len(sent[Count + 1])
           /\ \A p \in 1 .. Len(sent[Count + 1]) : Written(Count) + p <= Len(stream) =>
                 stream[Written(Count) + p] = sent[Count + 1][p]
           /\ \A i \in 1 .. Len(stream) : stream[i] \in Units
<1>1. Input /\ Count \in Nat /\ Len(sent) \in Nat
  BY OutIs, StreamIs DEF StdioTypes
<1>2. Count + 1 \in 1 .. Len(sent) /\ Count \in 0 .. Len(sent) /\ Count + 1 - 1 = Count
  BY <1>1
<1>3. /\ sent[Count + 1] \in Seq(Units) /\ Written(Count) \in Nat
      /\ \A i \in 1 .. Len(stream) : stream[i] \in Units
  BY <1>1, <1>2, StreamIs
<1>4. /\ Written(Count + 1) = Written(Count + 1 - 1) + Len(sent[Count + 1])
      /\ \A p \in 1 .. Len(sent[Count + 1]) : Written(Count + 1 - 1) + p <= Len(stream) =>
            stream[Written(Count + 1 - 1) + p] = sent[Count + 1][p]
  BY <1>1, <1>2, StreamIs
<1> QED BY <1>1, <1>2, <1>3, <1>4, LineEndsAre

\* Where a frame is, the line with its blank ends the header.
LEMMA HeaderGoesOn ==
    ASSUME StdioTypes, Count < Len(sent), NEW m, m = sent[Count + 1], IsFrame(m),
           Written(Count) <= pos, pos - Written(Count) < BlankAt(m)
    PROVE  /\ LineEnds = {} => Len(stream) < Written(Count) + BlankAt(m)
           /\ LineEnds # {} =>
                 /\ pos - Written(Count) + 1 \in 1 .. BlankAt(m)
                 /\ Min(LineEnds) = pos + 1 /\ Line = m[pos - Written(Count) + 1]
<1> DEFINE w == Written(Count)
           o == pos - w
           h == BlankAt(m)
<1>2. /\ m \in Seq(Units) /\ w \in Nat /\ pos \in Nat /\ Len(stream) \in Nat
      /\ \A p \in 1 .. Len(m) : w + p <= Len(stream) => stream[w + p] = m[p]
  BY InMessage
<1>3. /\ Len(m) \in Nat /\ h \in 1 .. Len(m) /\ m[h] = Blank
      /\ \A n \in 1 .. h - 1 : m[n][1] \in {"length", "other"}
  BY <1>2, FrameIs
<1>4. \A n \in 1 .. h : n \in 1 .. Len(m) /\ m[n][1] # "half"
  <2> SUFFICES ASSUME NEW n \in 1 .. h PROVE n \in 1 .. Len(m) /\ m[n][1] # "half"
    OBVIOUS
  <2>1. n \in 1 .. h - 1 \/ n = h
    BY <1>3
  <2> QED BY <1>3, <2>1, UnitKinds
<1> HIDE DEF w, h
<1>5. o \in Nat /\ w + o = pos /\ o + 1 \in 1 .. h /\ w + (o + 1) = pos + 1
  BY <1>2, <1>3 DEF w, h
<1> HIDE DEF o
<1>6. \A p \in 1 .. h : o < p /\ w + p <= Len(stream) => w + p \in LineEnds
  <2> SUFFICES ASSUME NEW p \in 1 .. h, o < p, w + p <= Len(stream) PROVE w + p \in LineEnds
    OBVIOUS
  <2>1. stream[w + p] = m[p] /\ m[p][1] # "half"
    BY <1>2, <1>4
  <2>2. w + p \in pos + 1 .. Len(stream)
    BY <1>2, <1>3, <1>5
  <2> QED BY <2>1, <2>2 DEF LineEnds
<1>7. ASSUME LineEnds = {} PROVE Len(stream) < w + h
  <2>1. ~(w + h <= Len(stream))
    BY <1>3, <1>5, <1>6, <1>7
  <2> QED BY <1>2, <1>3, <2>1
<1>8. ASSUME LineEnds # {} PROVE Min(LineEnds) = pos + 1 /\ Line = m[o + 1]
  <2>1. /\ LineEnds \subseteq pos + 1 .. Len(stream) /\ Min(LineEnds) \in LineEnds
        /\ \A n \in LineEnds : Min(LineEnds) <= n
    BY <1>8, LineEndsAre
  <2> DEFINE l == Min(LineEnds)
  <2>7. l \in pos + 1 .. Len(stream)
    BY <2>1
  <2> HIDE DEF l
  <2>2. l \in Nat /\ pos + 1 <= l /\ l <= Len(stream)
    BY <1>2, <2>7
  <2>3. pos + 1 <= Len(stream)
    BY <1>2, <2>2
  <2>4. pos + 1 \in LineEnds
    BY <1>5, <1>6, <2>3
  <2>5. l = pos + 1
    BY <1>2, <2>1, <2>2, <2>4 DEF l
  <2>6. stream[pos + 1] = m[o + 1]
    BY <1>2, <1>4, <1>5, <2>3
  <2> QED BY <2>4, <2>5, <2>6 DEF l, Line
<1> QED BY <1>5, <1>7, <1>8 DEF w, o, h

\* Reading the lines of a frame finds the length of what follows its blank line.
LEMMA LengthFound ==
    ASSUME NEW m \in Seq(Units), IsFrame(m), NEW len \in Nat \cup {-1},
           LengthAfter(m, BlankAt(m) - 1, len)
    PROVE  len = Len(m) - BlankAt(m) /\ len \in Nat
<1> DEFINE h == BlankAt(m)
<1>1. /\ Len(m) \in Nat /\ h \in 1 .. Len(m)
      /\ \E n \in 1 .. h - 1 : m[n] = Length(Len(m) - h) /\ \A l \in n + 1 .. h - 1 : m[l] = Other
  BY FrameIs
<1>2. LengthAfter(m, h - 1, len)
  OBVIOUS
<1> HIDE DEF h
<1>3. PICK n \in 1 .. h - 1 : m[n] = Length(Len(m) - h) /\ \A l \in n + 1 .. h - 1 : m[l] = Other
  BY <1>1
<1>4. m[n] # Other
  BY <1>3, UnitKinds
<1>5. PICK k \in 1 .. h - 1 : m[k] = Length(len) /\ \A l \in k + 1 .. h - 1 : m[l] = Other
  BY <1>2, <1>4 DEF LengthAfter
<1>6. m[k] # Other
  BY <1>5, UnitKinds
<1>7. n = k
  <2>1. n \in Nat /\ k \in Nat /\ h \in Nat
    BY <1>1
  <2>2. ~(n < k) /\ ~(k < n)
    BY <1>3, <1>4, <1>5, <1>6, <2>1
  <2> QED BY <2>1, <2>2
<1>8. len = Len(m) - h
  BY <1>3, <1>5, <1>7, UnitKinds
<1> QED BY <1>1, <1>8 DEF h

LEMMA OneMoreLine ==
    ASSUME NEW m, NEW o \in Nat, NEW len, LengthAfter(m, o, len)
    PROVE  /\ m[o + 1] = Other => LengthAfter(m, o + 1, len)
           /\ \A n : m[o + 1] = Length(n) => LengthAfter(m, o + 1, n)
<1>1. \A n \in 1 .. o + 1 : n \in 1 .. o \/ n = o + 1
  OBVIOUS
<1>2. \A n \in 1 .. o : n \in 1 .. o + 1
  OBVIOUS
<1>3. ASSUME m[o + 1] = Other PROVE LengthAfter(m, o + 1, len)
  <2>1. CASE len = -1 /\ \A n \in 1 .. o : m[n] = Other
    BY <1>1, <1>3, <2>1 DEF LengthAfter
  <2>2. CASE \E n \in 1 .. o : m[n] = Length(len) /\ \A l \in n + 1 .. o : m[l] = Other
    <3>1. PICK n \in 1 .. o : m[n] = Length(len) /\ \A l \in n + 1 .. o : m[l] = Other
      BY <2>2
    <3>2. \A l \in n + 1 .. o + 1 : l \in n + 1 .. o \/ l = o + 1
      OBVIOUS
    <3>3. \A l \in n + 1 .. o + 1 : m[l] = Other
      BY <1>3, <3>1, <3>2
    <3> QED BY <1>2, <3>1, <3>3 DEF LengthAfter
  <2> QED BY <2>1, <2>2 DEF LengthAfter
<1>4. ASSUME NEW n, m[o + 1] = Length(n) PROVE LengthAfter(m, o + 1, n)
  <2>1. o + 1 \in 1 .. o + 1 /\ o + 1 + 1 .. o + 1 = {}
    OBVIOUS
  <2> QED BY <1>4, <2>1 DEF LengthAfter
<1> QED BY <1>3, <1>4

\* The payload ReadPayload takes from the stream is that of the frame.
LEMMA PayloadRead ==
    ASSUME StdioTypes, Count < Len(sent), NEW m, m = sent[Count + 1], IsFrame(m),
           pos = Written(Count) + BlankAt(m), length = Len(m) - BlankAt(m),
           Len(stream) - pos >= length
    PROVE  SubSeq(stream, pos + 1, pos + length) = Payload(m)
<1> DEFINE w == Written(Count)
           h == BlankAt(m)
<1>2. /\ m \in Seq(Units) /\ w \in Nat /\ pos \in Nat /\ Len(stream) \in Nat
      /\ \A p \in 1 .. Len(m) : w + p <= Len(stream) => stream[w + p] = m[p]
      /\ \A i \in 1 .. Len(stream) : stream[i] \in Units
  BY InMessage
<1>3. Len(m) \in Nat /\ h \in 1 .. Len(m)
  BY <1>2, FrameIs
<1>4. \A p \in 1 .. Len(m) : m[p] \in Units
  BY <1>2, ElementOfSeq
<1> DEFINE k == Len(m) - h
<1>5. pos = w + h /\ length = k
  OBVIOUS
<1>6. Payload(m) = SubSeq(m, h + 1, Len(m))
  BY DEF Payload, BlankAt
<1> HIDE DEF w, h
<1>7. k \in Nat /\ h \in Nat /\ pos + k <= Len(stream) /\ h + k = Len(m)
  BY <1>2, <1>3, <1>5
<1> HIDE DEF k
<1>8. ASSUME NEW i \in 1 .. k PROVE stream[pos + i] = m[h + i]
  <2>1. /\ w \in Nat /\ h \in Nat /\ k \in Nat /\ pos \in Nat /\ Len(stream) \in Nat
        /\ i \in Nat \ {0} /\ i <= k
    BY <1>2, <1>7
  <2>2. h + i \in 1 .. Len(m) /\ w + (h + i) = pos + i /\ pos + i <= Len(stream)
    BY <1>3, <1>5, <1>7, <2>1, SMTT(20)
  <2> QED BY <1>2, <1>4, <2>2
<1>9. SubSeq(m, h + 1, h + k) = SubSeq(stream, pos + 1, pos + k)
  <2>1. h \in Nat /\ pos \in Nat /\ k \in Nat
    BY <1>2, <1>7
  <2>2. SubSeq(m, h + 1, h + k) = [i \in 1 .. k |-> m[h + i]]
    BY <2>1, PartOf
  <2>3. SubSeq(stream, pos + 1, pos + k) = [i \in 1 .. k |-> stream[pos + i]]
    BY <2>1, PartOf, SMTT(20)
  <2> QED BY <1>8, <2>2, <2>3
<1> QED BY <1>5, <1>6, <1>7, <1>9

\* A step in a frame.
LEMMA InFrameStep ==
    ASSUME StdioTypes, InTurn, [Next]_vars, ~WriteBody, Count < Len(sent),
           NEW m, m = sent[Count + 1], IsFrame(m),
           Written(Count) <= pos, InFrame(m, pos - Written(Count))
    PROVE  InFrame(m, pos - Written(Count))'
<1> DEFINE w == Written(Count)
           h == BlankAt(m)
           o == pos - w
<1>1. /\ UNCHANGED <<sent, stream>> /\ Count' = Count /\ Written(Count)' = Written(Count)
  BY TypesStep, CountStep DEF Written
<1>2. /\ w \in Nat /\ pos \in Nat /\ o \in Nat /\ Len(stream) \in Nat /\ m \in Seq(Units)
      /\ length \in Nat \cup {-1} /\ (pc # "over" => exit = "none")
  BY InMessage DEF StdioTypes
<1>3. /\ Len(m) \in Nat /\ h \in 1 .. Len(m) /\ m[h] = Blank
      /\ \A n \in 1 .. h - 1 : m[n][1] \in {"length", "other"}
  BY <1>2, FrameIs
<1>4. /\ pc = "header" => o < h /\ LengthAfter(m, o, length)
      /\ pc = "payload" => o = h /\ length = Len(m) - o
      /\ pc = "handle" => o = Len(m) /\ payload = Payload(m)
      /\ pc \in {"reply", "body"} => o = Len(m) /\ resp \in Responses(Payload(m))
      /\ exit = "clean" => Len(stream) <= w + h /\ Len(stream) < w + Len(m)
  BY DEF InFrame
<1>5. SUFFICES /\ pc' = "header" => pos' - w < h /\ LengthAfter(m, pos' - w, length')
               /\ pc' = "payload" => pos' - w = h /\ length' = Len(m) - (pos' - w)
               /\ pc' = "handle" => pos' - w = Len(m) /\ payload' = Payload(m)
               /\ pc' \in {"reply", "body"} => pos' - w = Len(m) /\ resp' \in Responses(Payload(m))
               /\ exit' = "clean" => Len(stream) <= w + h /\ Len(stream) < w + Len(m)
  BY <1>1 DEF InFrame
<1>6. CASE HeaderLine
  <2>1. /\ pc = "header" /\ pos' = Min(LineEnds) /\ LineEnds # {}
        /\ \/ \E n \in Nat : Line = Length(n) /\ length' = n /\ UNCHANGED <<pc, exit>>
           \/ Line = Other /\ UNCHANGED <<length, pc, exit>>
           \/ Line = Blank /\ length >= 0 /\ length' = length /\ pc' = "payload" /\ exit' = exit
           \/ Line = Blank /\ length < 0 /\ length' = length /\ pc' = "over" /\ exit' = "fatal"
           \/ Line = Junk /\ length' = length /\ pc' = "over" /\ exit' = "fatal"
    BY <1>6, HeaderCases DEF HeaderLine
  <2>2. o + 1 \in 1 .. h /\ pos' = pos + 1 /\ Line = m[o + 1]
    BY <1>4, <2>1, HeaderGoesOn
  <2>3. pos' - w = o + 1
    BY <1>2, <2>2
  <2>4. CASE o + 1 = h
    <3>1. Line = Blank
      BY <1>3, <2>2, <2>4
    <3>2. length = Len(m) - h /\ length \in Nat
      <4>1. o = h - 1
        BY <1>2, <1>3, <2>4
      <4>2. LengthAfter(m, h - 1, length)
        BY <1>4, <2>1, <4>1
      <4> QED BY <1>2, <4>2, LengthFound
    <3>3. \A n : Line # Length(n)
      BY <3>1, UnitKinds
    <3>4. pc' = "payload" /\ length' = length /\ exit' = exit
      BY <2>1, <3>1, <3>2, <3>3, UnitKinds
    <3> QED BY <1>2, <2>1, <2>3, <2>4, <3>2, <3>4
  <2>5. CASE o + 1 # h
    <3>1. o + 1 \in 1 .. h - 1
      BY <1>2, <1>3, <2>2, <2>5
    <3>2. Line[1] \in {"length", "other"}
      BY <1>3, <2>2, <3>1
    <3>3. Line # Blank /\ Line # Junk
      BY <3>2, UnitKinds
    <3>4. pc' = pc /\ exit' = exit /\ LengthAfter(m, o + 1, length')
      <4>1. LengthAfter(m, o, length)
        BY <1>4, <2>1
      <4>2. /\ m[o + 1] = Other => LengthAfter(m, o + 1, length)
            /\ \A n : m[o + 1] = Length(n) => LengthAfter(m, o + 1, n)
        <5> HIDE DEF o
        <5> QED BY <1>2, <4>1, OneMoreLine
      <4> HIDE DEF o
      <4> QED BY <2>1, <2>2, <3>3, <4>2
    <3>5. o + 1 < h
      BY <1>2, <1>3, <3>1
    <3> QED BY <1>2, <2>1, <2>3, <3>4, <3>5
  <2> QED BY <2>4, <2>5
<1>7. CASE HeaderEOF
  <2>1. pc = "header" /\ LineEnds = {} /\ pc' = "over" /\ exit' = "clean"
    BY <1>7 DEF HeaderEOF, Stop
  <2>2. Len(stream) < w + h
    BY <1>4, <2>1, HeaderGoesOn
  <2> QED BY <1>2, <1>3, <2>1, <2>2
<1>8. CASE ReadPayload
  <2>1. /\ pc = "payload" /\ Len(stream) - pos >= length /\ pc' = "handle" /\ exit' = exit
        /\ payload' = SubSeq(stream, pos + 1, pos + length) /\ pos' = pos + length
    BY <1>8 DEF ReadPayload, Left
  <2>2. pos = w + h /\ length = Len(m) - h
    BY <1>2, <1>3, <1>4, <2>1
  <2>3. payload' = Payload(m)
    BY <2>1, <2>2, PayloadRead
  <2>4. pos' - w = Len(m)
    <3>1. w \in Nat /\ h \in Nat /\ Len(m) \in Nat
      BY <1>2, <1>3
    <3>2. pos' = w + h + (Len(m) - h)
      BY <2>1, <2>2
    <3>3. \A a, b, c \in Nat : a + b + (c - b) - a = c
      OBVIOUS
    <3> QED BY <3>1, <3>2, <3>3
  <2> QED BY <1>2, <2>1, <2>3, <2>4
<1>9. CASE PayloadEOF
  <2>1. /\ pc = "payload" /\ Len(stream) - pos < length /\ pc' = "over"
        /\ exit' = IF Len(stream) - pos = 0 THEN "clean" ELSE "fatal"
    BY <1>9 DEF PayloadEOF, Stop, Left
  <2>2. pos = w + h /\ length = Len(m) - h
    BY <1>2, <1>3, <1>4, <2>1
  <2>3. ASSUME exit' = "clean" PROVE Len(stream) <= w + h /\ Len(stream) < w + Len(m)
    <3>1. Len(stream) - pos = 0 /\ Len(stream) - pos < Len(m) - h
      BY <2>1, <2>2, <2>3
    <3>2. w \in Nat /\ h \in Nat /\ Len(m) \in Nat /\ Len(stream) \in Nat
      BY <1>2, <1>3
    <3> HIDE DEF w, h
    <3> QED BY <2>2, <3>1, <3>2
  <2> QED BY <2>1, <2>3
<1>10. CASE Handle
  <2>1. pc = "handle" /\ resp' \in Responses(payload) /\ pc' = "reply" /\ pos' = pos /\ exit' = exit
    BY <1>10 DEF Handle
  <2> QED BY <1>2, <1>4, <2>1
<1>11. CASE WriteHead
  <2>1. pc = "reply" /\ pc' = "body" /\ UNCHANGED <<pos, resp, exit>>
    BY <1>11 DEF WriteHead
  <2> QED BY <1>2, <1>4, <2>1
<1>12. CASE WriteFails
  <2>1. pc' = "over" /\ exit' = "fatal"
    BY <1>12 DEF WriteFails, Stop
  <2> QED BY <2>1
<1>13. CASE Idle \/ UNCHANGED vars
  <2>1. UNCHANGED <<pc, pos, length, payload, resp, exit>>
    BY <1>13 DEF Idle, vars
  <2> QED BY <1>4, <2>1
<1> QED BY <1>6, <1>7, <1>8, <1>9, <1>10, <1>11, <1>12, <1>13 DEF Next, Step

LEMMA SyncStep ==
    ASSUME StdioInv, [Next]_vars
    PROVE  Synced' /\ Answered'
<1>1. /\ StdioTypes /\ InTurn /\ Answered /\ Synced
      /\ UNCHANGED <<sent, stream>> /\ pos \in Nat /\ pos <= pos' /\ Count \in Nat /\ Len(sent) \in Nat
      /\ \A n \in 1 .. Count : out'[2 * n] = out[2 * n]
  BY TypesStep, CountStep, OutIs, LineEndsAre, StreamIs DEF StdioInv, StdioTypes
<1>2. \A n : Written(n)' = Written(n)
  BY <1>1 DEF Written
<1>3. CASE ~WriteBody
  <2>1. Count' = Count
    BY <1>1, <1>3, CountStep
  <2>2. Answered'
    BY <1>1, <2>1 DEF Answered
  <2>3. ASSUME SoFar' PROVE /\ Count' <= Len(sent') /\ Written(Count)' <= pos'
                            /\ Count' = Len(sent') => pc' \in {"header", "over"}
                            /\ Count' < Len(sent') /\ IsFrame(sent'[Count' + 1]) =>
                                  InFrame(sent[Count + 1], pos - Written(Count))'
    <3>1. SoFar
      BY <1>1, <2>1, <2>3 DEF SoFar
    <3>2. /\ Count <= Len(sent) /\ Written(Count) <= pos
          /\ Count = Len(sent) => pc \in {"header", "over"}
          /\ Count < Len(sent) /\ IsFrame(sent[Count + 1]) =>
                InFrame(sent[Count + 1], pos - Written(Count))
      BY <1>1, <3>1 DEF Synced
    <3>3. Written(Count)' = Written(Count) /\ Written(Count) \in Nat
      <4>1. Count \in 0 .. Len(sent)
        BY <1>1, <3>2
      <4> QED BY <1>1, <2>1, <4>1, StreamIs DEF StdioTypes, Written
    <3>4. Written(Count)' <= pos'
      BY <1>1, <3>2, <3>3, TypesStep DEF StdioTypes
    <3>5. ASSUME Count = Len(sent) PROVE pc' \in {"header", "over"}
      <4>1. Len(stream) <= Written(Count) /\ Len(stream) \in Nat
        BY <1>1, <3>5, StreamIs DEF StdioTypes
      <4>2. LineEnds = {}
        <5>1. pos + 1 .. Len(stream) = {}
          BY <1>1, <3>2, <3>3, <4>1
        <5> QED BY <1>1, <5>1, LineEndsAre
      <4>3. ~HeaderLine
        BY <4>2 DEF HeaderLine
      <4> QED BY <3>2, <3>5, <4>3 DEF Next, Step, HeaderEOF, ReadPayload, PayloadEOF, Handle, WriteHead,
                 WriteBody, WriteFails, Idle, vars, Stop
    <3>6. ASSUME Count < Len(sent), IsFrame(sent[Count + 1])
          PROVE  InFrame(sent[Count + 1], pos - Written(Count))'
      <4> DEFINE m == sent[Count + 1]
      <4>1. PICK f : f = m
        OBVIOUS
      <4>2. InFrame(f, pos - Written(Count))'
        BY <1>1, <1>3, <3>2, <3>6, <4>1, InFrameStep
      <4>3. f = m'
        BY <1>1, <2>1, <4>1
      <4> QED BY <4>2, <4>3
    <3> QED BY <1>1, <2>1, <3>2, <3>4, <3>5, <3>6
  <2> QED BY <2>2, <2>3 DEF Synced
<1>4. CASE WriteBody
  <2>1. /\ pc = "body" /\ pc' = "header" /\ length' = -1 /\ pos' = pos /\ exit' = "none"
        /\ Count' = Count + 1 /\ out'[2 * (Count + 1)].resp = resp
    BY <1>1, <1>4, CountStep DEF WriteBody, StdioTypes
  <2>2. ASSUME \A l \in 1 .. Count + 1 : l <= Len(sent) => IsFrame(sent[l])
        PROVE  /\ Count + 1 <= Len(sent) /\ Written(Count + 1) = pos
               /\ resp \in Responses(Payload(sent[Count + 1]))
    <3>1. SoFar
      BY <1>1, <2>2 DEF SoFar
    <3>2. Count <= Len(sent) /\ Count # Len(sent)
      BY <1>1, <2>1, <3>1 DEF Synced
    <3>3. Count < Len(sent) /\ Count + 1 <= Len(sent) /\ Count + 1 \in 1 .. Count + 1
      BY <1>1, <3>2
    <3>4. IsFrame(sent[Count + 1])
      BY <2>2, <3>3
    <3>5. pos - Written(Count) = Len(sent[Count + 1]) /\ resp \in Responses(Payload(sent[Count + 1]))
      BY <1>1, <2>1, <3>1, <3>3, <3>4 DEF Synced, InFrame
    <3>6. /\ Written(Count) \in Nat /\ Written(Count + 1) = Written(Count) + Len(sent[Count + 1])
      BY <1>1, <3>3, InMessage
    <3> QED BY <1>1, <3>3, <3>5, <3>6
  <2>3. Answered'
    <3> SUFFICES ASSUME NEW n \in 1 .. Count + 1, n <= Len(sent), \A l \in 1 .. n : IsFrame(sent[l])
                 PROVE  out'[2 * n].resp \in Responses(Payload(sent[n]))
      BY <1>1, <2>1 DEF Answered
    <3>1. CASE n \in 1 .. Count
      BY <1>1, <3>1 DEF Answered
    <3>2. CASE n = Count + 1
      BY <2>1, <2>2, <3>2
    <3>3. n \in 1 .. Count \/ n = Count + 1
      BY <1>1
    <3> QED BY <3>1, <3>2, <3>3
  <2>4. ASSUME SoFar' PROVE /\ Count' <= Len(sent') /\ Written(Count)' <= pos'
                            /\ Count' = Len(sent') => pc' \in {"header", "over"}
                            /\ Count' < Len(sent') /\ IsFrame(sent'[Count' + 1]) =>
                                  InFrame(sent[Count + 1], pos - Written(Count))'
    <3>1. \A l \in 1 .. Count + 1 : l <= Len(sent) => IsFrame(sent[l])
      BY <1>1, <2>1, <2>4 DEF SoFar
    <3>2. Count + 1 <= Len(sent) /\ Written(Count + 1) = pos
      BY <2>2, <3>1
    <3>3. Written(Count)' = pos
      BY <1>1, <2>1, <3>2 DEF Written
    <3>4. ASSUME NEW m \in Seq(Units), IsFrame(m) PROVE 0 < BlankAt(m) /\ LengthAfter(m, 0, -1)
      <4>1. BlankAt(m) \in 1 .. Len(m) /\ Len(m) \in Nat
        BY <3>4, FrameIs
      <4>2. 0 < BlankAt(m)
        BY <4>1
      <4> QED BY <4>2 DEF LengthAfter
    <3>5. ASSUME Count + 1 < Len(sent), IsFrame(sent[Count + 1 + 1])
          PROVE  InFrame(sent[Count + 1], pos - Written(Count))'
      <4>1. sent[Count + 1 + 1] \in Seq(Units)
        <5>1. Count + 1 + 1 \in 1 .. Len(sent)
          BY <1>1, <3>5
        <5> QED BY <1>1, <5>1, StreamIs DEF StdioTypes
      <4>2. (pos - Written(Count))' = 0
        BY <1>1, <2>1, <3>3
      <4>3. (sent[Count + 1])' = sent[Count + 1 + 1]
        BY <1>1, <2>1
      <4>4. 0 < BlankAt(sent[Count + 1 + 1]) /\ LengthAfter(sent[Count + 1 + 1], 0, -1)
        BY <3>4, <3>5, <4>1
      <4> QED BY <2>1, <4>2, <4>3, <4>4 DEF InFrame
    <3> QED BY <1>1, <2>1, <3>2, <3>3, <3>5
  <2> QED BY <2>3, <2>4 DEF Synced
<1> QED BY <1>3, <1>4

LEMMA InitStdio == Init => StdioInv
<1> SUFFICES ASSUME Init PROVE StdioInv
  OBVIOUS
<1>1. Input /\ pos = 0 /\ pc = "header" /\ length = -1 /\ out = <<>> /\ exit = "none" /\ resp = NoResponse
  BY DEF Init, Input
<1>2. Len(out) = 0 /\ Count = 0 /\ DOMAIN out = {}
  <2>1. Len(out) = 0 /\ DOMAIN out = 1 .. Len(out)
    BY <1>1
  <2>2. 0 \div 2 = 0
    OBVIOUS
  <2> QED BY <2>1, <2>2 DEF Count
<1>3. StdioTypes
  <2>1. NoResponse \in Answers
    BY DEF NoResponse, Answers, Statuses
  <2>2. 0 \in 0 .. Len(stream)
    BY <1>1, StreamIs
  <2> QED BY <1>1, <2>1, <2>2 DEF StdioTypes
<1>4. InTurn /\ Answered
  BY <1>1, <1>2 DEF InTurn, Answered
<1>5. Synced
  <2>1. Len(sent) \in Nat /\ Written(0) = 0
    BY <1>1, StreamIs
  <2>2. ASSUME 0 < Len(sent), IsFrame(sent[1]) PROVE InFrame(sent[1], 0)
    <3>1. sent[1] \in Seq(Units)
      <4>1. 1 \in 1 .. Len(sent)
        BY <2>1, <2>2
      <4> QED BY <1>1, <4>1, StreamIs
    <3>2. 0 < BlankAt(sent[1])
      <4>1. BlankAt(sent[1]) \in 1 .. Len(sent[1]) /\ Len(sent[1]) \in Nat
        BY <2>2, <3>1, FrameIs
      <4> QED BY <4>1
    <3>3. LengthAfter(sent[1], 0, -1)
      BY DEF LengthAfter
    <3> QED BY <1>1, <3>2, <3>3 DEF InFrame
  <2> QED BY <1>1, <1>2, <2>1, <2>2 DEF Synced
<1> QED BY <1>3, <1>4, <1>5 DEF StdioInv

LEMMA StepStdio == StdioInv /\ [Next]_vars => StdioInv'
BY TypesStep, TurnStep, SyncStep DEF StdioInv

-----------------------------------------------------------------------------
(* What the invariant says                                                   *)
\* Serve has come to no end before it has answered what arrived whole.
LEMMA NoEndBefore ==
    ASSUME StdioInv, NEW n \in 1 .. Len(sent), Whole(n), Count < n
    PROVE  ~(Waiting \/ exit = "clean")
<1> DEFINE m == sent[Count + 1]
           w == Written(Count)
           h == BlankAt(m)
<1>1. StdioTypes /\ Input /\ Count \in Nat /\ Len(sent) \in Nat /\ n \in Nat
  BY OutIs, StreamIs DEF StdioInv, StdioTypes
<1>2. Count < Len(sent) /\ Count + 1 \in 1 .. n /\ \A l \in 1 .. Count : l \in 1 .. n
  BY <1>1
<1>3. SoFar /\ IsFrame(m)
  BY <1>2 DEF Whole, SoFar
<1>4. Written(Count) <= pos /\ InFrame(m, pos - w)
  BY <1>2, <1>3 DEF StdioInv, Synced
<1>5. m \in Seq(Units) /\ w \in Nat /\ pos \in Nat /\ Len(stream) \in Nat /\ Written(Count + 1) = w + Len(m)
  BY <1>1, <1>2, InMessage
<1>6. Len(m) \in Nat /\ h \in 1 .. Len(m)
  BY <1>3, <1>5, FrameIs
<1>7. w + Len(m) <= Len(stream)
  <2>1. Written(Count + 1) <= Written(n) /\ Written(n) \in Nat /\ Written(Count + 1) \in Nat
    <3>1. Count + 1 \in 0 .. Len(sent) /\ n \in 0 .. Len(sent) /\ Count + 1 <= n
      BY <1>1, <1>2
    <3> QED BY <1>1, <3>1, StreamIs
  <2>2. Written(n) <= Len(stream)
    BY DEF Whole
  <2>3. Written(Count + 1) <= Len(stream)
    BY <1>5, <2>1, <2>2
  <2> QED BY <1>5, <2>3
<1>8. exit # "clean"
  BY <1>4, <1>5, <1>6, <1>7 DEF InFrame
<1>9. ASSUME pc = "header", LineEnds = {} PROVE FALSE
  <2>1. pos - w < h
    BY <1>4, <1>9 DEF InFrame
  <2>2. Len(stream) < w + h
    BY <1>1, <1>2, <1>3, <1>4, <1>9, <2>1, HeaderGoesOn
  <2>3. h \in Nat /\ h <= Len(m)
    BY <1>6
  <2> HIDE DEF w, h
  <2> QED BY <1>5, <1>6, <1>7, <2>2, <2>3
<1>10. ASSUME pc = "payload", Left < length PROVE FALSE
  <2>1. pos - w = h /\ length = Len(m) - (pos - w)
    BY <1>4, <1>10 DEF InFrame
  <2>2. Len(stream) - pos < length
    BY <1>10 DEF Left
  <2> HIDE DEF w, h
  <2> QED BY <1>5, <1>6, <1>7, <2>1, <2>2
<1> QED BY <1>8, <1>9, <1>10 DEF Waiting

LEMMA InvAnswers == StdioInv => AnsweredInOrder
<1> SUFFICES ASSUME StdioInv PROVE AnsweredInOrder
  OBVIOUS
<1>1. Count \in Nat /\ StdioTypes /\ InTurn /\ Answered
  BY OutIs DEF StdioInv
<1>2. DOMAIN Bodies = 1 .. Count /\ \A n \in 1 .. Count : Bodies[n] = out[2 * n]
  BY DEF Bodies, Count
<1>3. ASSUME NEW n \in 1 .. Len(sent), Whole(n), n \in DOMAIN Bodies
      PROVE  Bodies[n].resp \in Responses(Payload(sent[n]))
  BY <1>1, <1>2, <1>3 DEF Whole, Answered
<1>4. ASSUME NEW n \in 1 .. Len(sent), Whole(n), Waiting \/ exit = "clean"
      PROVE  n \in DOMAIN Bodies
  <2>1. ~(Count < n)
    BY <1>4, NoEndBefore
  <2>2. n \in Nat /\ 1 <= n
    BY <1>1, StreamIs DEF StdioTypes
  <2> QED BY <1>1, <1>2, <2>1, <2>2
<1> QED BY <1>1, <1>3, <1>4 DEF InTurn, AnsweredInOrder

LEMMA PayloadLength ==
    ASSUME NEW m \in Seq(Units), IsFrame(m)
    PROVE  Len(Payload(m)) = Len(m) - BlankAt(m)
<1> DEFINE h == BlankAt(m)
           x == h + 1
<1>1. Len(m) \in Nat /\ h \in 1 .. Len(m)
  BY FrameIs
<1>2. Payload(m) = SubSeq(m, x, Len(m))
  BY DEF Payload, BlankAt
<1>3. x \in Int /\ Len(m) \in Int /\ \A i \in x .. Len(m) : m[i] \in Units
  <2>1. \A i \in 1 .. Len(m) : m[i] \in Units
    BY ElementOfSeq
  <2> QED BY <1>1, <2>1
<1> HIDE DEF h
<1>4. x = h + 1
  OBVIOUS
<1> HIDE DEF x
<1>5. Len(Payload(m)) = (IF x <= Len(m) THEN Len(m) - x + 1 ELSE 0)
  BY <1>2, <1>3, SubSeqProperties
<1>6. h \in Nat /\ h <= Len(m)
  BY <1>1
<1> QED BY <1>1, <1>4, <1>5, <1>6 DEF h

LEMMA InvCuts == StdioInv => CutIsNoticed
<1> SUFFICES ASSUME StdioInv, exit = "clean", \A m \in ToSet(sent) : IsFrame(m),
                    NEW n \in 1 .. Len(sent), Whole(n - 1), Written(n) > Len(stream),
                    Written(n) - Len(Payload(sent[n])) < Len(stream)
             PROVE  FALSE
  BY DEF CutIsNoticed
<1> DEFINE m == sent[n]
           w == Written(n - 1)
           h == BlankAt(m)
<1>1. StdioTypes /\ Input /\ Count \in Nat /\ Len(sent) \in Nat /\ n \in Nat /\ pos \in Nat /\ Len(stream) \in Nat
      /\ pos <= Len(stream)
  BY OutIs, StreamIs DEF StdioInv, StdioTypes
<1>2. \A l \in 1 .. Len(sent) : IsFrame(sent[l])
  <2>1. DOMAIN sent = 1 .. Len(sent)
    BY <1>1, StreamIs, LenProperties
  <2> QED BY <2>1 DEF ToSet
<1>3. SoFar
  <2>1. \A l \in 1 .. Count : l <= Len(sent) => l \in 1 .. Len(sent)
    BY <1>1
  <2> QED BY <1>2, <2>1 DEF SoFar
<1>4. Count <= Len(sent) /\ Written(Count) <= pos
  BY <1>3 DEF StdioInv, Synced
\* The frames before n are answered, ...
<1>5. n - 1 <= Count
  <2>1. CASE n = 1
    BY <1>1, <2>1
  <2>2. CASE n # 1
    <3>1. n - 1 \in 1 .. Len(sent)
      BY <1>1, <2>2
    <3>2. ~(Count < n - 1)
      BY <3>1, NoEndBefore
    <3> QED BY <1>1, <3>2
  <2> QED BY <2>1, <2>2
\* ... and n itself is not.
<1>6. Count < n
  <2>1. SUFFICES ASSUME n <= Count PROVE FALSE
    BY <1>1
  <2>2. Count \in 0 .. Len(sent) /\ n \in 0 .. Len(sent)
    BY <1>1, <1>4
  <2>3. Written(n) <= Written(Count) /\ Written(n) \in Nat /\ Written(Count) \in Nat
    BY <1>1, <2>1, <2>2, StreamIs
  <2> QED BY <1>1, <1>4, <2>3
<1>7. n - 1 = Count /\ Count < Len(sent) /\ Count + 1 = n
  BY <1>1, <1>5, <1>6
<1>8. InFrame(m, pos - w) /\ IsFrame(m) /\ Written(Count) = w
  BY <1>2, <1>3, <1>7 DEF StdioInv, Synced
<1>9. Len(stream) <= w + h
  BY <1>8 DEF InFrame
<1>10. m \in Seq(Units) /\ w \in Nat /\ Written(n) = w + Len(m)
  BY <1>1, <1>7, InMessage
<1>11. Len(m) \in Nat /\ h \in 1 .. Len(m) /\ Len(Payload(m)) = Len(m) - h
  BY <1>8, <1>10, FrameIs, PayloadLength
<1>12. w + Len(m) - (Len(m) - h) < Len(stream)
  BY <1>10, <1>11
<1>13. h \in Nat
  BY <1>11
<1> HIDE DEF w, h
<1> QED BY <1>1, <1>9, <1>10, <1>11, <1>12, <1>13

\* Whatever the clients write and wherever the stream ends, the answers are
\* whole frames in the order of the requests, one for each that arrived whole
\* (Serve, readFrame, handlePayload, writeFrame).
THEOREM AnswersInOrder == Spec => []AnsweredInOrder
<1>1. StdioInv => AnsweredInOrder
  BY InvAnswers
<1> QED BY InitStdio, StepStdio, <1>1, PTL DEF Spec

\* Whatever frames a client writes, Serve returns as after a clean end of the
\* input only where no payload was cut (readFrame, Serve).
THEOREM CutsAreNoticed == Spec => []CutIsNoticed
<1>1. StdioInv => CutIsNoticed
  BY InvCuts
<1> QED BY InitStdio, StepStdio, <1>1, PTL DEF Spec
================================================================================
