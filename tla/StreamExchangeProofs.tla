------------------------ MODULE StreamExchangeProofs ------------------------
(***************************************************************************)
(* One exchange, for any rules, texts, events, configurations and bounds.  *)
(* What the rules decide on a text is the subject of InspectionProofs.     *)
(***************************************************************************)
EXTENDS StreamExchange, InspectionProofs

Rejections == {i \in DOMAIN trail : trail[i].decision = "block"}
Allowed == {i \in DOMAIN trail : trail[i].decision = "allow"}

Terminated == \E i \in DOMAIN got : got[i].kind = "termination"

Labels == {"off", "request", "senderr", "headers", "reject", "write", "read", "inspect",
           "terminate", "close", "done"}

\* Where handler, goroutine and server are, and what passes between them.
Control ==
  /\ hpc \in {"start", "asking", "select", "refused", "blocked", "failed", "streaming"}
  /\ gpc \in Labels
  /\ headerCh \in {<<>>, <<"ok">>, <<"err">>, <<"rejected">>}
  /\ hpc \in {"start", "asking"} => gpc = "off" /\ trail = <<>>
  /\ reader # "none" => hpc = "streaming"
  /\ got # <<>> => reader # "none"
  /\ cur.kind \in {"event", "plain"}
  /\ gpc \in {"off", "request"} => cur.kind = "event"

\* A rejection is the last event, and it is what every rejection on its way to
\* the client stands for.
Rejects ==
  /\ IsSeq(trail)
  /\ cfg.enabled /\ gpc # "off" => 1 \in Decisions("request")
  /\ Rejections \subseteq {Len(trail)}
  /\ \/ gpc = "reject" \/ headerCh = <<"rejected">> \/ hpc = "blocked"
     \/ cfg.enabled /\ (gpc = "terminate" \/ Terminated)
     => Rejections # {}
  /\ Rejections # {} => gpc \in {"off", "reject", "terminate", "close", "done"}

\* The fragments of cur that were inspected and that the client may still receive.
Waiting ==
  CASE gpc = "write" \/ (gpc = "headers" /\ cur.kind = "plain") -> Len(cur.fragments)
    [] gpc = "inspect" -> Len(cur.fragments) - Len(todo)
    [] OTHER -> 0

\* Each fragment that was, or may be, delivered has its audit event.
Audits ==
  /\ IsSeq(got) /\ IsSeq(todo) /\ IsSeq(cur.fragments) /\ IsFiniteSet(Delivered)
  /\ gpc = "inspect" => cfg.enabled /\ todo # <<>> /\ Len(todo) <= Len(cur.fragments)
  /\ cfg.enabled => Cardinality(Delivered) + Waiting <= Cardinality(Decisions("response"))

Jobs == jobs \in Nat /\ shadows \in Nat /\ shadows + jobs <= Cardinality(Allowed)

\* The inductive invariant.
SInv == Control /\ Rejects /\ Audits /\ Jobs
-----------------------------------------------------------------------------
\* emit appends one event: it is a rejection, or it is a decision on its
\* direction that may be one that allows.
LEMMA EmitAdds ==
  ASSUME IsSeq(trail), NEW d, NEW x, Emit(d, x)
  PROVE  /\ IsSeq(trail') /\ Len(trail') = Len(trail) + 1 /\ DOMAIN trail = 1..Len(trail)
         /\ Rejections' = Rejections \cup (IF x = "block" THEN {Len(trail)'} ELSE {})
         /\ Allowed' = Allowed \cup (IF x = "allow" THEN {Len(trail)'} ELSE {})
         /\ \A r : Decisions(r)' = Decisions(r) \cup
                       (IF r = d /\ x # "block" THEN {Len(trail)'} ELSE {})
         /\ Len(trail)' \notin DOMAIN trail
<1> DEFINE e == [direction |-> d, decision |-> x]
<1>1. trail' = Append(trail, e)
  BY DEF Emit
<1>2. /\ IsSeq(trail') /\ Len(trail') = Len(trail) + 1
      /\ DOMAIN trail' = DOMAIN trail \cup {Len(trail)'}
      /\ Len(trail)' \notin DOMAIN trail /\ DOMAIN trail = 1..Len(trail)
      /\ \A i \in DOMAIN trail : trail'[i] = trail[i]
      /\ trail'[Len(trail)'] = e
  BY <1>1, AppendIs
<1>3. trail'[Len(trail)'].direction = d /\ trail'[Len(trail)'].decision = x
  BY <1>2
<1> HIDE DEF e
<1>4. Rejections' = Rejections \cup (IF x = "block" THEN {Len(trail)'} ELSE {})
  BY <1>2, <1>3, Zenon DEF Rejections
<1>5. Allowed' = Allowed \cup (IF x = "allow" THEN {Len(trail)'} ELSE {})
  BY <1>2, <1>3, Zenon DEF Allowed
<1>6. \A r : Decisions(r)' = Decisions(r) \cup
                (IF r = d /\ x # "block" THEN {Len(trail)'} ELSE {})
  BY <1>2, <1>3, Zenon DEF Decisions
<1> QED
  BY <1>2, <1>4, <1>5, <1>6, Zenon
-----------------------------------------------------------------------------
\* Nothing has happened at first.
LEMMA InitSInv == Init => SInv
<1> SUFFICES ASSUME Init PROVE SInv
  OBVIOUS
<1>1. Control
  BY SMT DEF Init, Control, Labels, Piece
<1>2. trail = <<>> /\ got = <<>> /\ todo = <<>> /\ cur.fragments = <<>>
  BY DEF Init, Piece
<1>3. IsSeq(<<>>)
  BY SMT DEF IsSeq
<1>4. Rejections = {} /\ Allowed = {} /\ Delivered = {} /\ Decisions("response") = {}
  BY <1>2, SMT DEF Rejections, Allowed, Delivered, Decisions
<1>5. Rejects
  BY <1>2, <1>3, <1>4, SMTT(30) DEF Init, Rejects, Terminated
<1>6. Cardinality({}) = 0 /\ IsFiniteSet({})
  BY FS_EmptySet
<1>7. Waiting = 0
  BY SMT DEF Init, Waiting
<1>8. Audits
  <2>1. Cardinality(Delivered) + Waiting <= Cardinality(Decisions("response"))
    BY <1>4, <1>6, <1>7, SMT
  <2>2. gpc # "inspect"
    BY SMT DEF Init
  <2> QED
    BY <1>2, <1>3, <1>4, <1>6, <2>1, <2>2, Zenon DEF Audits
<1>9. Jobs
  BY <1>4, <1>6, SMT DEF Init, Jobs
<1> QED
  BY <1>1, <1>5, <1>8, <1>9, SMTT(30) DEF SInv

\* The answer of the handler to what the goroutine sent it.
LEMMA AnswerIs ==
  /\ Answers[<<"ok">>[1]] = "streaming" /\ Answers[<<"err">>[1]] = "failed"
  /\ Answers[<<"rejected">>[1]] = "blocked"
  BY SMT DEF Answers

\* The handler attaches the pipe only when it answers with the stream, and the
\* client receives only through a pipe that is attached.
LEMMA ControlStep == Control /\ [Next]_vars => Control'
<1> SUFFICES ASSUME Control, [Next]_vars PROVE Control'
  OBVIOUS
<1> USE DEF Control, Labels, request, inspection, transport, upstream, Goto
<1>1. CASE Refuse
  BY <1>1, SMT DEF Refuse
<1>2. CASE AuditRequest
  BY <1>2, SMT DEF AuditRequest, Begin, Reject
<1>3. CASE AuditorAnswers
  BY <1>3, SMTT(30) DEF AuditorAnswers, Begin, Reject
<1>4. CASE ReceiveHeaders
  BY <1>4, AnswerIs, SMT DEF ReceiveHeaders
<1>5. CASE HeadersTimeOut
  BY <1>5, SMTT(30) DEF HeadersTimeOut
<1>6. CASE UpstreamFails \/ UpstreamStreams \/ UpstreamAnswers \/ OnHeaders
  BY <1>6, SMTT(30) DEF UpstreamFails, UpstreamStreams, UpstreamAnswers, OnHeaders, Piece
<1>7. CASE ReadEvent \/ InspectFragment \/ ReadTooLarge \/ ReadEnds \/ ReadFails
  BY <1>7, SMT DEF ReadEvent, InspectFragment, ReadTooLarge, ReadEnds, ReadFails,
     Piece
<1>8. CASE WriteDrained \/ WriteFails \/ WriteStalls \/ TerminateDrained \/ TerminateFails
  BY <1>8, SMT DEF WriteDrained, WriteFails, WriteStalls, TerminateDrained, TerminateFails
<1>9. CASE SendError \/ Close
  BY <1>9, SMT DEF SendError, Close
<1>10. CASE ReaderEOF \/ ClientGone \/ ShadowAudit \/ UNCHANGED vars
  BY <1>10, SMT DEF ReaderEOF, ClientGone, ShadowAudit, vars
<1> QED
  BY <1>1, <1>2, <1>3, <1>4, <1>5, <1>6, <1>7, <1>8, <1>9, <1>10, ZenonT(60)
     DEF Next, Exchange, Handler, Server

\* A step that emits nothing leaves what was decided.
LEMMA TrailSame ==
  ASSUME trail' = trail
  PROVE  /\ Rejections' = Rejections /\ Allowed' = Allowed
         /\ \A r : Decisions(r)' = Decisions(r)
  BY Zenon DEF Rejections, Allowed, Decisions

\* The client is told of a termination by no other piece.
LEMMA TerminatedBy ==
  ASSUME IsSeq(got), NEW piece, got' = Append(got, piece)
  PROVE  Terminated' <=> Terminated \/ piece.kind = "termination"
<1>1. /\ DOMAIN got' = DOMAIN got \cup {Len(got) + 1}
      /\ \A i \in DOMAIN got : got'[i] = got[i]
      /\ got'[Len(got) + 1] = piece
  BY AppendIs
<1> QED
  BY <1>1, Zenon DEF Terminated

\* A step that emits an event before any rejection.
LEMMA EmitRejects ==
  ASSUME Rejects, Rejections = {}, cfg' = cfg, NEW d, NEW x, Emit(d, x),
         cfg.enabled /\ gpc' # "off" => 1 \in Decisions("request")',
         x = "block" => gpc' \in {"off", "reject", "terminate"},
         x # "block" => /\ gpc' # "reject" /\ headerCh' # <<"rejected">> /\ hpc' # "blocked"
                        /\ cfg.enabled => gpc' # "terminate" /\ ~Terminated'
  PROVE  Rejects'
<1>1. IsSeq(trail)
  BY DEF Rejects
<1>2. /\ IsSeq(trail')
      /\ Rejections' = IF x = "block" THEN {Len(trail)'} ELSE {}
  BY <1>1, EmitAdds, Zenon
<1>3. Rejections' \subseteq {Len(trail)'}
  BY <1>2, Zenon
<1>4. x = "block" => Rejections' # {}
  BY <1>2, Zenon
<1>5. x # "block" => Rejections' = {}
  BY <1>2, Zenon
<1> QED
  BY <1>2, <1>3, <1>4, <1>5, Zenon DEF Rejects

\* The first event lets the request pass, and it stays the first.
LEMMA PassStays ==
  ASSUME IsSeq(trail), 1 \in Decisions("request"), NEW d, NEW x, Emit(d, x)
  PROVE  1 \in Decisions("request")'
  BY EmitAdds, ZenonT(60)

\* The same of the first entry of the trail.
LEMMA PassFirst ==
  ASSUME trail = <<>>, NEW x, Emit("request", x), x # "block"
  PROVE  1 \in Decisions("request")'
<1>1. IsSeq(trail) /\ Len(trail) = 0
  BY SMT DEF IsSeq
<1>2. Len(trail') = Len(trail) + 1
  BY <1>1, EmitAdds
<1>3. Len(trail)' \in Decisions("request")'
  <2>1. Decisions("request")' = Decisions("request") \cup
          (IF "request" = "request" /\ x # "block" THEN {Len(trail)'} ELSE {})
    BY <1>1, EmitAdds
  <2> QED
    BY <2>1, Zenon
<1> QED
  BY <1>1, <1>2, <1>3, SMT

\* The handler's audit of the request.
LEMMA RequestRejects ==
  Control /\ Rejects /\ (AuditRequest \/ AuditorAnswers) => Rejects'
<1> SUFFICES ASSUME Control, Rejects, AuditRequest \/ AuditorAnswers PROVE Rejects'
  OBVIOUS
<1>1. /\ gpc = "off" /\ trail = <<>> /\ got = <<>> /\ cfg' = cfg /\ got' = got
      /\ headerCh' = headerCh /\ hpc \in {"start", "asking"}
  BY SMT DEF Control, AuditRequest, AuditorAnswers, transport
<1>2. Rejections = {} /\ ~Terminated /\ ~Terminated'
  BY <1>1, SMT DEF Rejections, Terminated
<1>3. headerCh # <<"rejected">>
  BY <1>2, Zenon DEF Rejects
<1>4. \/ ~cfg.enabled /\ Begin /\ trail' = trail
      \/ hpc' = "asking" /\ gpc' = gpc /\ trail' = trail
      \/ Emit("request", "block") /\ Reject
      \/ \E x : x # "block" /\ Emit("request", x) /\ Begin
  <2>1. CASE AuditRequest
    <3>1. PICK text \in Requests : \E decision \in Verdict(text, Default) :
           CASE ~cfg.enabled -> Begin /\ UNCHANGED <<trail, jobs>>
             [] cfg.enabled /\ decision = "block" -> Emit("request", decision) /\ Reject
             [] cfg.enabled /\ decision = "monitor" /\ cfg.auditor ->
                  hpc' = "asking" /\ UNCHANGED <<gpc, trail, jobs>>
             [] OTHER -> Emit("request", decision) /\ Begin
      BY <2>1, Zenon DEF AuditRequest
    <3> QED
      BY <3>1, Zenon
  <2>2. CASE AuditorAnswers
    <3>1. "monitor" # "block"
      OBVIOUS
    <3> QED
      BY <2>2, <3>1, Zenon DEF AuditorAnswers
  <2> QED
    BY <2>1, <2>2
<1>5. CASE ~cfg.enabled /\ Begin /\ trail' = trail
  BY <1>1, <1>2, <1>3, <1>5, TrailSame, Zenon DEF Begin, Rejects
<1>6. CASE hpc' = "asking" /\ gpc' = gpc /\ trail' = trail
  BY <1>1, <1>2, <1>3, <1>6, TrailSame, Zenon DEF Rejects
<1>7. CASE Emit("request", "block") /\ Reject
  <2>1. gpc' = "off"
    BY <1>1, <1>7 DEF Reject
  <2> QED
    BY <1>1, <1>2, <1>7, <2>1, EmitRejects, Zenon
<1>8. ASSUME NEW x, x # "block", Emit("request", x), Begin PROVE Rejects'
  <2>1. 1 \in Decisions("request")'
    BY <1>1, <1>8, PassFirst
  <2>2. gpc' = "request" /\ hpc' = "select"
    BY <1>8 DEF Begin
  <2> QED
    BY <1>1, <1>2, <1>3, <1>8, <2>1, <2>2, EmitRejects, Zenon
<1> QED
  BY <1>4, <1>5, <1>6, <1>7, <1>8, Zenon

\* The goroutine's audits of the response: of a plain body, of a fragment, and
\* of an event that is too large.
LEMMA ResponseRejects ==
  Control /\ Rejects /\ (UpstreamAnswers \/ InspectFragment \/ ReadTooLarge) => Rejects'
<1> SUFFICES ASSUME Control, Rejects, UpstreamAnswers \/ InspectFragment \/ ReadTooLarge
             PROVE  Rejects'
  OBVIOUS
<1>1. /\ gpc \in {"request", "inspect", "read"} /\ cfg' = cfg /\ got' = got
      /\ headerCh' = headerCh /\ hpc' = hpc
  BY SMT DEF UpstreamAnswers, InspectFragment, ReadTooLarge, request, transport
<1>2. Rejections = {} /\ gpc # "off" /\ IsSeq(trail)
  BY <1>1, SMT DEF Rejects
<1>3. /\ headerCh # <<"rejected">> /\ hpc # "blocked"
      /\ cfg.enabled => ~Terminated /\ 1 \in Decisions("request")
  BY <1>2, Zenon DEF Rejects
<1>4. Terminated' <=> Terminated
  BY <1>1, Zenon DEF Terminated
<1>5. \/ ~cfg.enabled /\ trail' = trail /\ gpc' \in {"headers", "terminate"}
      \/ \E x : /\ Emit("response", x)
                /\ x = "block" => gpc' \in {"reject", "terminate"}
                /\ x # "block" => gpc' \in {"headers", "write", "inspect"}
  <2>1. CASE UpstreamAnswers
    <3>1. \E x : IF ~cfg.enabled THEN Goto("headers") /\ UNCHANGED <<trail, jobs>>
                 ELSE Emit("response", x) /\ Goto(IF x = "block" THEN "reject" ELSE "headers")
      BY <2>1, Zenon DEF UpstreamAnswers
    <3> QED
      BY <3>1, Zenon DEF Goto
  <2>2. CASE InspectFragment
    <3>1. \E x : /\ Emit("response", x)
                 /\ Goto(CASE x = "block" -> "terminate"
                           [] x # "block" /\ todo' = <<>> -> "write"
                           [] OTHER -> "inspect")
      BY <2>2, Zenon DEF InspectFragment
    <3>2. PICK x : /\ Emit("response", x)
                   /\ gpc' = CASE x = "block" -> "terminate"
                               [] x # "block" /\ todo' = <<>> -> "write"
                               [] OTHER -> "inspect"
      BY <3>1, Zenon DEF Goto
    <3>3. /\ x = "block" => gpc' = "terminate"
          /\ x # "block" => gpc' \in {"write", "inspect"}
      BY <3>2, SMT
    <3> QED
      BY <3>2, <3>3, Zenon
  <2>3. CASE ReadTooLarge
    BY <2>3, Zenon DEF ReadTooLarge, Goto
  <2> QED
    BY <2>1, <2>2, <2>3
<1>6. CASE ~cfg.enabled /\ trail' = trail /\ gpc' \in {"headers", "terminate"}
  <2>1. gpc' # "reject"
    BY <1>6
  <2> QED
    BY <1>1, <1>2, <1>3, <1>6, <2>1, TrailSame, Zenon DEF Rejects
<1>7. ASSUME NEW x, Emit("response", x),
             x = "block" => gpc' \in {"reject", "terminate"},
             x # "block" => gpc' \in {"headers", "write", "inspect"}
      PROVE  Rejects'
  <2>1. cfg.enabled => 1 \in Decisions("request")'
    BY <1>2, <1>3, <1>7, PassStays, Zenon
  <2>2. x # "block" => gpc' # "reject" /\ gpc' # "terminate"
    BY <1>7
  <2> QED
    BY <1>1, <1>2, <1>3, <1>4, <1>7, <2>1, <2>2, EmitRejects, ZenonT(60)
<1> QED
  BY <1>5, <1>6, <1>7, Zenon

\* Where the goroutine may go without an audit event: never from a rejection
\* back to the stream.
LEMMA QuietRejects ==
  ASSUME Control, Rejects, trail' = trail, cfg' = cfg,
         Terminated' => Terminated \/ gpc = "terminate",
         headerCh' = <<"rejected">> => headerCh = <<"rejected">> \/ gpc = "reject",
         hpc' = "blocked" => hpc = "blocked" \/ headerCh = <<"rejected">>,
         gpc' = gpc \/ (gpc # "off" /\ gpc' \notin {"off", "reject", "terminate"}),
         gpc \in {"reject", "terminate", "close", "done"} =>
           gpc' \in {"reject", "terminate", "close", "done"}
  PROVE  Rejects'
<1>1. Rejections' = Rejections /\ Decisions("request")' = Decisions("request")
  BY TrailSame
<1>2. gpc' = "off" => gpc = "off"
  OBVIOUS
<1>3. gpc' = "reject" => gpc = "reject"
  OBVIOUS
<1>4. gpc' = "terminate" => gpc = "terminate"
  OBVIOUS
<1>5. Rejections # {} => gpc' \in {"off", "reject", "terminate", "close", "done"}
  <2>1. Rejections # {} => gpc \in {"off", "reject", "terminate", "close", "done"}
    BY DEF Rejects
  <2> QED
    BY <2>1
<1> QED
  BY <1>1, <1>2, <1>3, <1>4, <1>5, SMTT(30) DEF Rejects

\* Every step leaves a rejection the last event.
LEMMA RejectsStep == Control /\ Rejects /\ IsSeq(got) /\ [Next]_vars => Rejects'
<1> SUFFICES ASSUME Control, Rejects, IsSeq(got), [Next]_vars PROVE Rejects'
  OBVIOUS
<1>0. got' = got => Terminated' = Terminated
  BY Zenon DEF Terminated
<1> USE DEF request, inspection, transport, upstream, Goto
<1>1. CASE Refuse \/ HeadersTimeOut
  <2>1. /\ trail' = trail /\ cfg' = cfg /\ got' = got /\ headerCh' = headerCh /\ gpc' = gpc
        /\ hpc' # "blocked"
    BY <1>1, SMTT(30) DEF Refuse, HeadersTimeOut
  <2> QED
    BY <1>0, <2>1, QuietRejects, SMTT(30)
<1>2. CASE ReceiveHeaders
  <2>1. /\ trail' = trail /\ cfg' = cfg /\ got' = got /\ headerCh' = <<>> /\ gpc' = gpc
        /\ hpc' = Answers[headerCh[1]] /\ headerCh # <<>>
    BY <1>2, SMT DEF ReceiveHeaders
  <2>2. hpc' = "blocked" => headerCh = <<"rejected">>
    <3>1. headerCh \in {<<"ok">>, <<"err">>, <<"rejected">>}
      BY <2>1 DEF Control
    <3>2. headerCh = <<"ok">> => hpc' = "streaming"
      BY <2>1, AnswerIs, Zenon
    <3>3. headerCh = <<"err">> => hpc' = "failed"
      BY <2>1, AnswerIs, Zenon
    <3> QED
      BY <3>1, <3>2, <3>3
  <2>3. <<>> # <<"rejected">>
    BY SMT
  <2> QED
    BY <1>0, <2>1, <2>2, <2>3, QuietRejects, SMTT(30)
<1>3. CASE UpstreamFails \/ UpstreamStreams \/ ReadEvent \/ ReadEnds \/ ReadFails
           \/ WriteFails \/ WriteStalls \/ TerminateFails \/ Close
  <2>1. /\ trail' = trail /\ cfg' = cfg /\ got' = got /\ headerCh' = headerCh /\ hpc' = hpc
        /\ gpc # "off" /\ gpc # "reject" /\ gpc' \notin {"off", "reject", "terminate"}
        /\ gpc \in {"terminate", "close", "done"} => gpc' \in {"close", "done"}
    BY <1>3, SMTT(30) DEF UpstreamFails, UpstreamStreams, ReadEvent, ReadEnds, ReadFails,
       WriteFails, WriteStalls, TerminateFails, Close
  <2> QED
    BY <1>0, <2>1, QuietRejects, SMTT(30)
<1>4. CASE OnHeaders
  <2>1. /\ trail' = trail /\ cfg' = cfg /\ got' = got /\ headerCh' # <<"rejected">> /\ hpc' = hpc
        /\ gpc = "headers" /\ gpc' \in {"write", "read"}
    BY <1>4, SMTT(30) DEF OnHeaders
  <2> QED
    BY <1>0, <2>1, QuietRejects, SMTT(30)
<1>5. CASE SendError
  <2>1. /\ trail' = trail /\ cfg' = cfg /\ got' = got /\ hpc' = hpc
        /\ gpc # "off" /\ gpc' = "close"
        /\ headerCh' = <<"rejected">> => gpc = "reject"
    BY <1>5, SMTT(30) DEF SendError
  <2> QED
    BY <1>0, <2>1, QuietRejects, SMTT(30)
<1>6. CASE WriteDrained
  <2>1. /\ trail' = trail /\ cfg' = cfg /\ got' = Append(got, cur) /\ hpc' = hpc
        /\ headerCh' = headerCh /\ gpc = "write" /\ gpc' \in {"close", "read"}
        /\ cur.kind # "termination"
    BY <1>6, SMTT(30) DEF WriteDrained, Control
  <2>2. Terminated' => Terminated
    BY <2>1, TerminatedBy, SMTT(30)
  <2> QED
    BY <2>1, <2>2, QuietRejects, SMTT(30)
<1>7. CASE TerminateDrained
  <2>1. /\ trail' = trail /\ cfg' = cfg /\ hpc' = hpc /\ headerCh' = headerCh
        /\ gpc = "terminate" /\ gpc' = "close"
    BY <1>7, SMT DEF TerminateDrained
  <2> QED
    BY <2>1, QuietRejects, SMTT(30)
<1>8. CASE ReaderEOF \/ ClientGone \/ ShadowAudit \/ UNCHANGED vars
  <2>1. /\ trail' = trail /\ cfg' = cfg /\ got' = got /\ headerCh' = headerCh /\ gpc' = gpc
        /\ hpc' = hpc
    BY <1>8, Zenon DEF ReaderEOF, ClientGone, ShadowAudit, vars
  <2> QED
    BY <1>0, <2>1, QuietRejects, SMTT(30)
<1> QED
  BY <1>1, <1>2, <1>3, <1>4, <1>5, <1>6, <1>7, <1>8, RequestRejects, ResponseRejects, ZenonT(60)
     DEF Next, Exchange, Handler, Server
-----------------------------------------------------------------------------
\* A piece that is delivered adds its fragments.
LEMMA DeliveredAdds ==
  ASSUME IsSeq(got), IsFiniteSet(Delivered), NEW piece, IsSeq(piece.fragments),
         got' = Append(got, piece)
  PROVE  /\ IsSeq(got') /\ IsFiniteSet(Delivered')
         /\ Cardinality(Delivered)' = Cardinality(Delivered) + Len(piece.fragments)
<1> DEFINE n == Len(got) + 1
           new == {n} \X DOMAIN piece.fragments
<1>1. /\ IsSeq(got') /\ DOMAIN got' = DOMAIN got \cup {n} /\ n \notin DOMAIN got
      /\ \A i \in DOMAIN got : got'[i] = got[i]
      /\ got'[n] = piece
  BY AppendIs
<1>2. DOMAIN piece.fragments = 1..Len(piece.fragments) /\ Len(piece.fragments) \in Nat
  BY SMT DEF IsSeq
<1>3. /\ IsFiniteSet(DOMAIN piece.fragments)
      /\ Cardinality(DOMAIN piece.fragments) = Len(piece.fragments)
  BY <1>2, FS_Interval, SMT
<1>4. IsFiniteSet({n}) /\ Cardinality({n}) = 1
  BY FS_Singleton, Zenon
<1>5. IsFiniteSet(new) /\ Cardinality(new) = Len(piece.fragments)
  <2>1. /\ IsFiniteSet(new)
        /\ Cardinality(new) = Cardinality({n}) * Cardinality(DOMAIN piece.fragments)
    BY <1>3, <1>4, FS_Product, Zenon
  <2> QED
    BY <1>2, <1>3, <1>4, <2>1, SMTT(30)
<1> HIDE DEF n
<1>6. Delivered' = Delivered \cup new
  <2>1. \A p : p \in Delivered <=> \E i \in DOMAIN got : p \in {i} \X DOMAIN got[i].fragments
    BY Zenon DEF Delivered
  <2>2. \A p : p \in Delivered' <=>
                \E i \in DOMAIN got' : p \in {i} \X DOMAIN got'[i].fragments
    BY Zenon DEF Delivered
  <2>3. \A p : p \in Delivered' <=> p \in Delivered \/ p \in {n} \X DOMAIN piece.fragments
    BY <1>1, <2>1, <2>2, Zenon
  <2> QED
    BY <2>3, Zenon
<1>7. Delivered \cap new = {}
  BY <1>1, SMTT(30) DEF Delivered
<1> HIDE DEF new
<1>8. /\ IsFiniteSet(Delivered \cup new)
      /\ Cardinality(Delivered \cup new)
           = Cardinality(Delivered) + Cardinality(new) - Cardinality(Delivered \cap new)
  BY <1>5, FS_Union
<1>9. Cardinality({}) = 0 /\ Cardinality(Delivered) \in Nat
  BY FS_EmptySet, FS_CardinalityType
<1>10. Cardinality(Delivered \cap new) = 0
  BY <1>7, <1>9, Zenon
<1>11. Cardinality(Delivered \cup new) = Cardinality(Delivered) + Len(piece.fragments)
  BY <1>2, <1>5, <1>8, <1>9, <1>10, SMTT(30)
<1> QED
  BY <1>1, <1>6, <1>8, <1>11, Zenon

\* A decision on the response counts once.
LEMMA EmitCounts ==
  ASSUME IsSeq(trail), NEW d, NEW x, Emit(d, x)
  PROVE  /\ Cardinality(Decisions("response")) \in Nat /\ Cardinality(Allowed) \in Nat
         /\ Cardinality(Decisions("response"))' \in Nat /\ Cardinality(Allowed)' \in Nat
         /\ Cardinality(Decisions("response"))' >= Cardinality(Decisions("response"))
         /\ d = "response" /\ x # "block" =>
              Cardinality(Decisions("response"))' = Cardinality(Decisions("response")) + 1
         /\ Cardinality(Allowed)' >= Cardinality(Allowed)
         /\ x = "allow" => Cardinality(Allowed)' = Cardinality(Allowed) + 1
<1> DEFINE n == Len(trail)'
           R == Decisions("response")
<1>1. R \subseteq DOMAIN trail /\ Allowed \subseteq DOMAIN trail
  BY Zenon DEF Decisions, Allowed
<1>2. /\ IsFiniteSet(R) /\ Cardinality(R) \in Nat
      /\ IsFiniteSet(Allowed) /\ Cardinality(Allowed) \in Nat
  BY <1>1, EventsFinite
<1>3. n \notin R /\ n \notin Allowed
  BY <1>1, EmitAdds, Zenon
<1>4. R' = R \cup (IF "response" = d /\ x # "block" THEN {n} ELSE {})
  BY EmitAdds
<1>5. Allowed' = Allowed \cup (IF x = "allow" THEN {n} ELSE {})
  BY EmitAdds
<1>6. /\ IsFiniteSet(R \cup {n}) /\ Cardinality(R \cup {n}) = Cardinality(R) + 1
      /\ IsFiniteSet(Allowed \cup {n}) /\ Cardinality(Allowed \cup {n}) = Cardinality(Allowed) + 1
  BY <1>2, <1>3, FS_AddElement, Zenon
<1>7. /\ R' = R \/ R' = R \cup {n}
      /\ d = "response" /\ x # "block" => R' = R \cup {n}
  BY <1>4, Zenon
<1>8. /\ Allowed' = Allowed \/ Allowed' = Allowed \cup {n}
      /\ x = "allow" => Allowed' = Allowed \cup {n}
  BY <1>5, Zenon
<1>9. /\ Cardinality(R') = Cardinality(R) \/ Cardinality(R') = Cardinality(R) + 1
      /\ d = "response" /\ x # "block" => Cardinality(R') = Cardinality(R) + 1
  BY <1>6, <1>7, Zenon
<1>10. /\ \/ Cardinality(Allowed') = Cardinality(Allowed)
          \/ Cardinality(Allowed') = Cardinality(Allowed) + 1
       /\ x = "allow" => Cardinality(Allowed') = Cardinality(Allowed) + 1
  BY <1>6, <1>8, Zenon
<1> HIDE DEF R
<1>11. /\ Cardinality(R') \in Nat /\ Cardinality(Allowed') \in Nat
       /\ Cardinality(R') >= Cardinality(R) /\ Cardinality(Allowed') >= Cardinality(Allowed)
  BY <1>2, <1>9, <1>10, SMTT(30)
<1> QED
  BY <1>2, <1>9, <1>10, <1>11, Zenon DEF R

\* A job is submitted for a text that was allowed, and audited once.
LEMMA JobsStep == Rejects /\ Jobs /\ [Next]_vars => Jobs'
<1> SUFFICES ASSUME Rejects, Jobs, [Next]_vars PROVE Jobs'
  OBVIOUS
<1>0. IsSeq(trail)
  BY DEF Rejects
<1>1. \/ trail' = trail /\ jobs' = jobs /\ shadows' = shadows
      \/ ShadowAudit
      \/ shadows' = shadows /\ \E d, x : Emit(d, x)
  BY Zenon
    DEF Next, Exchange, Handler, Server, vars, request, inspection, transport, upstream,
     UpstreamFails, UpstreamStreams, UpstreamAnswers, OnHeaders, ReadEvent, InspectFragment,
     ReadTooLarge, ReadEnds, ReadFails, WriteDrained, WriteFails, WriteStalls,
     TerminateDrained, TerminateFails, SendError, Close, Refuse, AuditRequest,
     AuditorAnswers, ReceiveHeaders, HeadersTimeOut, ReaderEOF, ClientGone
<1>2. CASE trail' = trail /\ jobs' = jobs /\ shadows' = shadows
  BY <1>2, TrailSame, Zenon DEF Jobs
<1>3. CASE ShadowAudit
  <2>1. Allowed' = Allowed
    BY <1>3, TrailSame DEF ShadowAudit
  <2>2. Cardinality(Allowed) \in Nat
    BY <1>0, EventsFinite, Zenon DEF Allowed
  <2> QED
    BY <1>3, <2>1, <2>2, SMTT(30) DEF ShadowAudit, Jobs
<1>4. ASSUME NEW d, NEW x, Emit(d, x), shadows' = shadows PROVE Jobs'
  <2>1. /\ Cardinality(Allowed) \in Nat /\ Cardinality(Allowed)' \in Nat
        /\ Cardinality(Allowed)' >= Cardinality(Allowed)
        /\ x = "allow" => Cardinality(Allowed)' = Cardinality(Allowed) + 1
    BY <1>0, <1>4, EmitCounts, SMTT(30)
  <2>2. jobs' = jobs \/ (x = "allow" /\ jobs' = jobs + 1)
    BY <1>4, Zenon DEF Emit, SubmitShadow
  <2> QED
    BY <1>4, <2>1, <2>2, SMTT(30) DEF Jobs
<1> QED
  BY <1>1, <1>2, <1>3, <1>4, Zenon

\* A step that delivers nothing and leaves nothing more to be delivered.
LEMMA QuietAudits ==
  ASSUME Audits, cfg' = cfg, got' = got, IsSeq(todo'), IsSeq(cur'.fragments),
         gpc' = "inspect" => cfg.enabled /\ todo' # <<>> /\ Len(todo') <= Len(cur'.fragments),
         cfg.enabled =>
           \/ trail' = trail /\ Waiting' = Waiting
           \/ /\ Waiting' = 0 /\ Waiting >= 0 /\ Waiting \in Int
              /\ Cardinality(Decisions("response"))' >= Cardinality(Decisions("response"))
              /\ Cardinality(Decisions("response")) \in Nat
              /\ Cardinality(Decisions("response"))' \in Nat
  PROVE  Audits'
<1>1. Delivered' = Delivered /\ IsSeq(got') /\ IsFiniteSet(Delivered)
  BY Zenon DEF Audits, Delivered
<1>2. Cardinality(Delivered) \in Nat
  BY <1>1, FS_CardinalityType, SMTT(30)
<1>3. cfg.enabled =>
        Cardinality(Delivered) + Waiting' <= Cardinality(Decisions("response"))'
  <2> SUFFICES ASSUME cfg.enabled
               PROVE  Cardinality(Delivered) + Waiting' <= Cardinality(Decisions("response"))'
    OBVIOUS
  <2>1. Cardinality(Delivered) + Waiting <= Cardinality(Decisions("response"))
    BY DEF Audits
  <2>2. CASE trail' = trail /\ Waiting' = Waiting
    BY <2>1, <2>2, TrailSame, SMTT(30)
  <2>3. CASE /\ Waiting' = 0 /\ Waiting >= 0 /\ Waiting \in Int
             /\ Cardinality(Decisions("response"))' >= Cardinality(Decisions("response"))
             /\ Cardinality(Decisions("response")) \in Nat
             /\ Cardinality(Decisions("response"))' \in Nat
    BY <1>2, <2>1, <2>3, SMTT(30)
  <2> QED
    BY <2>2, <2>3
<1> QED
  BY <1>1, <1>3, Zenon DEF Audits

\* What waits is a number of fragments.
LEMMA WaitingIs ==
  ASSUME Audits, Rejects
  PROVE  /\ Waiting \in Int /\ Waiting >= 0 /\ IsSeq(trail)
         /\ Cardinality(Decisions("response")) \in Nat
<1>1. IsSeq(trail)
  BY DEF Rejects
<1>2. Cardinality(Decisions("response")) \in Nat
  BY <1>1, EventsFinite, Zenon DEF Decisions
<1>3. Len(todo) \in Nat /\ Len(cur.fragments) \in Nat
  BY DEF Audits, IsSeq
<1>4. gpc = "inspect" => Len(todo) <= Len(cur.fragments)
  BY DEF Audits
<1>5. Waiting \in Int /\ Waiting >= 0
  BY <1>3, <1>4, SMT DEF Waiting
<1> QED
  BY <1>1, <1>2, <1>5, SMTT(30)

\* A step after which nothing waits, with at most one event.
LEMMA IdleAudits ==
  ASSUME Audits, Rejects, cfg' = cfg, got' = got, todo' = todo, cur' = cur,
         gpc' \notin {"inspect", "write", "headers"} \/ (gpc' = "headers" /\ cur.kind = "event"),
         trail' = trail \/ \E d, x : Emit(d, x)
  PROVE  Audits'
<1>1. IsSeq(todo') /\ IsSeq(cur'.fragments)
  BY Zenon DEF Audits
<1>2. Waiting' = 0
  BY SMT DEF Waiting
<1>3. /\ Waiting \in Int /\ Waiting >= 0 /\ IsSeq(trail)
      /\ Cardinality(Decisions("response")) \in Nat
  BY WaitingIs
<1>4. /\ Cardinality(Decisions("response"))' >= Cardinality(Decisions("response"))
      /\ Cardinality(Decisions("response"))' \in Nat
  <2>1. CASE trail' = trail
    <3>1. Cardinality(Decisions("response"))' = Cardinality(Decisions("response"))
      BY <2>1, TrailSame
    <3> QED
      BY <1>3, <3>1, SMT
  <2>2. CASE \E d, x : Emit(d, x)
    BY <1>3, <2>2, EmitCounts, Zenon
  <2> QED
    BY <2>1, <2>2
<1>5. gpc' # "inspect"
  OBVIOUS
<1> QED
  BY <1>1, <1>2, <1>3, <1>4, <1>5, QuietAudits, ZenonT(60)

\* A plain body is inspected as a whole before it waits for its headers.
LEMMA AnswerAudits == Control /\ Rejects /\ Audits /\ UpstreamAnswers => Audits'
<1> SUFFICES ASSUME Control, Rejects, Audits, UpstreamAnswers PROVE Audits'
  OBVIOUS
<1>1. PICK text, x :
        /\ cur' = Piece("plain", <<[channel |-> "body", text |-> text]>>)
        /\ IF ~cfg.enabled THEN Goto("headers") /\ UNCHANGED <<trail, jobs>>
           ELSE /\ Emit("response", x)
                /\ Goto(IF x = "block" THEN "reject" ELSE "headers")
  BY Zenon DEF UpstreamAnswers
<1>2. cfg' = cfg /\ got' = got /\ todo' = todo /\ gpc = "request"
  BY DEF UpstreamAnswers, request, transport
<1>3. cur'.kind = "plain" /\ cur'.fragments = <<[channel |-> "body", text |-> text]>>
  BY <1>1 DEF Piece
<1>4. IsSeq(cur'.fragments) /\ Len(cur'.fragments) = 1
  BY <1>3, SMT DEF IsSeq
<1>5. IsSeq(todo') /\ Delivered' = Delivered /\ IsSeq(got') /\ IsFiniteSet(Delivered)
  BY <1>2, Zenon DEF Audits, Delivered
<1>6. Cardinality(Delivered) \in Nat
  BY <1>5, FS_CardinalityType
<1>7. gpc' \in {"reject", "headers"}
  BY <1>1, Zenon DEF Goto
<1>8. ASSUME cfg.enabled
      PROVE  Cardinality(Delivered) + Waiting' <= Cardinality(Decisions("response"))'
  <2>1. Cardinality(Delivered) + Waiting <= Cardinality(Decisions("response"))
    BY <1>8 DEF Audits
  <2>2. Waiting = 0
    BY <1>2, SMTT(30) DEF Waiting
  <2>3. IsSeq(trail)
    BY DEF Rejects
  <2>4. Emit("response", x) /\ gpc' = IF x = "block" THEN "reject" ELSE "headers"
    BY <1>1, <1>8, Zenon DEF Goto
  <2>5. /\ Cardinality(Decisions("response")) \in Nat
        /\ Cardinality(Decisions("response"))' \in Nat
        /\ Cardinality(Decisions("response"))' >= Cardinality(Decisions("response"))
        /\ x # "block" =>
             Cardinality(Decisions("response"))' = Cardinality(Decisions("response")) + 1
    BY <2>3, <2>4, EmitCounts
  <2>6. Waiting' = IF x = "block" THEN 0 ELSE 1
    BY <1>3, <1>4, <2>4, SMTT(30) DEF Waiting
  <2> QED
    BY <1>6, <2>1, <2>2, <2>5, <2>6, SMTT(30)
<1>9. gpc' # "inspect"
  BY <1>7
<1> QED
  BY <1>2, <1>4, <1>5, <1>8, <1>9, Zenon DEF Audits

\* A fragment that passes joins those that wait; a rejection leaves them behind.
LEMMA InspectAudits == Rejects /\ Audits /\ InspectFragment => Audits'
<1> SUFFICES ASSUME Rejects, Audits, InspectFragment PROVE Audits'
  OBVIOUS
<1>1. PICK x : /\ Emit("response", x)
               /\ todo' = IF x = "block" THEN todo ELSE Tail(todo)
               /\ Goto(CASE x = "block" -> "terminate"
                         [] x # "block" /\ todo' = <<>> -> "write"
                         [] OTHER -> "inspect")
  BY Zenon DEF InspectFragment
<1>2. cfg' = cfg /\ got' = got /\ cur' = cur /\ gpc = "inspect"
  BY DEF InspectFragment, request, transport
<1>3. /\ cfg.enabled /\ todo # <<>> /\ IsSeq(todo) /\ IsSeq(cur.fragments)
      /\ Len(todo) <= Len(cur.fragments) /\ IsSeq(trail)
      /\ Cardinality(Delivered) + Waiting <= Cardinality(Decisions("response"))
  BY <1>2, Zenon DEF Audits, Rejects
<1>4. IsSeq(Tail(todo)) /\ Len(Tail(todo)) = Len(todo) - 1 /\ Len(todo) > 0
  BY <1>3, TailIs, SMTT(30)
<1>5. Len(todo) \in Nat /\ Len(cur.fragments) \in Nat
  BY <1>3 DEF IsSeq
<1>6. Delivered' = Delivered /\ IsSeq(got') /\ IsFiniteSet(Delivered)
  BY <1>2, Zenon DEF Audits, Delivered
<1>7. Cardinality(Delivered) \in Nat
  BY <1>6, FS_CardinalityType
<1>8. /\ Cardinality(Decisions("response")) \in Nat
      /\ Cardinality(Decisions("response"))' \in Nat
      /\ Cardinality(Decisions("response"))' >= Cardinality(Decisions("response"))
      /\ x # "block" =>
           Cardinality(Decisions("response"))' = Cardinality(Decisions("response")) + 1
  BY <1>1, <1>3, EmitCounts, SMTT(30)
<1>9. Waiting = Len(cur.fragments) - Len(todo)
  BY <1>2, SMTT(30) DEF Waiting
<1>10. CASE x = "block"
  <2>1. todo' = todo /\ gpc' = "terminate"
    BY <1>1, <1>10, Zenon DEF Goto
  <2>2. Waiting' = 0
    BY <2>1, SMT DEF Waiting
  <2>3. Cardinality(Delivered) + Waiting' <= Cardinality(Decisions("response"))'
    BY <1>3, <1>5, <1>7, <1>8, <1>9, <2>2, SMTT(30)
  <2>4. gpc' # "inspect"
    BY <2>1
  <2> QED
    BY <1>2, <1>3, <1>6, <2>1, <2>3, <2>4, ZenonT(60) DEF Audits
<1>11. CASE x # "block"
  <2>1. todo' = Tail(todo)
    BY <1>1, <1>11, Zenon
  <2>2. gpc' = IF todo' = <<>> THEN "write" ELSE "inspect"
    BY <1>1, <1>11, Zenon DEF Goto
  <2>3. todo' = <<>> => Len(todo') = 0
    BY SMT
  <2>4. Waiting' = Len(cur.fragments) - Len(todo')
    BY <1>2, <1>5, <2>2, <2>3, SMTT(30) DEF Waiting
  <2>5. Cardinality(Delivered) + Waiting' <= Cardinality(Decisions("response"))'
    BY <1>3, <1>4, <1>5, <1>7, <1>8, <1>9, <1>11, <2>1, <2>4, SMTT(30)
  <2>6. Len(todo') <= Len(cur.fragments)
    BY <1>3, <1>4, <1>5, <2>1, SMTT(30)
  <2>7. gpc' = "inspect" => todo' # <<>>
    BY <2>2, SMTT(30)
  <2> QED
    BY <1>2, <1>3, <1>4, <1>6, <2>1, <2>5, <2>6, <2>7, ZenonT(60) DEF Audits
<1> QED
  BY <1>10, <1>11

\* An event waits for its inspection, or for nothing when audits are off.
LEMMA ReadAudits == Rejects /\ Audits /\ ReadEvent => Audits'
<1> SUFFICES ASSUME Rejects, Audits, ReadEvent PROVE Audits'
  OBVIOUS
<1>1. PICK event \in Events : /\ cur' = Piece("event", event)
                              /\ todo' = IF cfg.enabled THEN event ELSE <<>>
  BY Zenon DEF ReadEvent
<1>2. /\ cfg' = cfg /\ got' = got /\ trail' = trail /\ gpc = "read"
      /\ gpc' = IF cancelled THEN "senderr" ELSE IF todo' = <<>> THEN "write" ELSE "inspect"
  BY DEF ReadEvent, request, transport, Goto
<1>3. cur'.kind = "event" /\ cur'.fragments = event
  BY <1>1 DEF Piece
<1>4. IsSeq(event) /\ IsSeq(<<>>) /\ Len(<<>>) = 0 /\ Len(event) \in Nat
  <2>1. event \in Seq([channel : Channels, text : Seq(STRING)])
    BY <1>1, ExchangeAssumption, Zenon DEF ExchangeAssumption
  <2>2. IsSeq(event)
    BY <2>1, SeqIsSeq
  <2> QED
    BY <2>2, SMTT(30) DEF IsSeq
<1>5. IsSeq(todo') /\ IsSeq(cur'.fragments)
  BY <1>1, <1>3, <1>4, Zenon
<1>6. gpc' = "inspect" => cfg.enabled /\ todo' # <<>>
  BY <1>1, <1>2, SMT
<1>7. cfg.enabled => todo' = event
  BY <1>1, Zenon
<1>8. gpc' = "inspect" => Len(todo') <= Len(cur'.fragments)
  BY <1>3, <1>4, <1>6, <1>7, SMTT(30)
<1>9. cfg.enabled => Waiting' = 0
  <2>1. CASE gpc' = "write"
    <3>1. cfg.enabled => Len(cur'.fragments) = 0
      BY <1>2, <1>3, <1>4, <1>7, <2>1, SMTT(30)
    <3> QED
      BY <2>1, <3>1, SMTT(30) DEF Waiting
  <2>2. CASE gpc' = "inspect"
    BY <1>3, <1>4, <1>7, <2>2, SMTT(30) DEF Waiting
  <2>3. CASE gpc' = "senderr"
    BY <2>3, SMT DEF Waiting
  <2> QED
    BY <1>2, <2>1, <2>2, <2>3, SMTT(30)
<1>10. Decisions("response")' = Decisions("response")
  BY <1>2, TrailSame
<1>11. /\ Waiting >= 0 /\ Waiting \in Int
       /\ Cardinality(Decisions("response"))' >= Cardinality(Decisions("response"))
       /\ Cardinality(Decisions("response")) \in Nat
       /\ Cardinality(Decisions("response"))' \in Nat
  BY <1>10, WaitingIs, SMT
<1> QED
  BY <1>2, <1>5, <1>6, <1>8, <1>9, <1>11, QuietAudits, SMTT(30)

\* The fragments that waited are delivered.
LEMMA WriteAudits == Rejects /\ Audits /\ (WriteDrained \/ TerminateDrained) => Audits'
<1> SUFFICES ASSUME Rejects, Audits, WriteDrained \/ TerminateDrained PROVE Audits'
  OBVIOUS
<1>1. /\ cfg' = cfg /\ todo' = todo /\ cur' = cur /\ trail' = trail /\ gpc' \in {"close", "read"}
      /\ gpc \in {"write", "terminate"}
  BY SMT DEF WriteDrained, TerminateDrained, request, inspection, Goto
<1>2. PICK piece : /\ got' = Append(got, piece)
                   /\ piece = IF gpc = "write" THEN cur ELSE Piece("termination", <<>>)
  BY SMT DEF WriteDrained, TerminateDrained
<1>3. IsSeq(<<>>) /\ Len(<<>>) = 0
  BY SMT DEF IsSeq
<1>4. /\ IsSeq(got) /\ IsFiniteSet(Delivered) /\ IsSeq(todo) /\ IsSeq(cur.fragments)
      /\ cfg.enabled => Cardinality(Delivered) + Waiting <= Cardinality(Decisions("response"))
  BY DEF Audits
<1>5. IsSeq(piece.fragments) /\ Len(piece.fragments) = Waiting
  <2>1. CASE gpc = "write"
    BY <1>2, <1>4, <2>1, SMTT(30) DEF Waiting
  <2>2. CASE gpc = "terminate"
    <3>1. piece.fragments = <<>>
      BY <1>2, <2>2 DEF Piece
    <3> QED
      BY <1>3, <2>2, <3>1, SMTT(30) DEF Waiting
  <2> QED
    BY <1>1, <2>1, <2>2, SMTT(30)
<1>6. /\ IsSeq(got') /\ IsFiniteSet(Delivered')
      /\ Cardinality(Delivered)' = Cardinality(Delivered) + Len(piece.fragments)
  BY <1>2, <1>4, <1>5, DeliveredAdds, ZenonT(60)
<1>7. Decisions("response")' = Decisions("response")
  BY <1>1, TrailSame
<1>8. Waiting' = 0 /\ gpc' # "inspect"
  BY <1>1, SMTT(30) DEF Waiting
<1>9. Cardinality(Delivered) \in Nat /\ Waiting \in Int
  BY <1>4, FS_CardinalityType, WaitingIs, SMTT(30)
<1>10. cfg.enabled => Cardinality(Delivered)' + Waiting' <= Cardinality(Decisions("response"))
  BY <1>4, <1>5, <1>6, <1>8, <1>9, SMTT(30)
<1> QED
  BY <1>1, <1>4, <1>6, <1>7, <1>8, <1>10, ZenonT(60) DEF Audits

\* Every step keeps an audit event for each fragment that the client has or
\* may still receive.
LEMMA AuditsStep == Control /\ Rejects /\ Audits /\ [Next]_vars => Audits'
<1> SUFFICES ASSUME Control, Rejects, Audits, [Next]_vars PROVE Audits'
  OBVIOUS
<1> USE DEF request, inspection, transport, upstream, Goto
<1>1. CASE AuditRequest \/ AuditorAnswers
  <2>1. cfg' = cfg /\ got' = got /\ todo' = todo /\ cur' = cur /\ gpc = "off"
    BY <1>1, SMT DEF AuditRequest, AuditorAnswers, Control
  <2>2. trail' = trail \/ \E d, x : Emit(d, x)
    BY <1>1, Zenon DEF AuditRequest, AuditorAnswers
  <2>3. gpc' \in {"off", "request"}
    BY <1>1, <2>1, SMTT(30) DEF AuditRequest, AuditorAnswers, Begin, Reject
  <2> QED
    BY <2>1, <2>2, <2>3, IdleAudits, SMTT(30)
<1>2. CASE UpstreamFails \/ UpstreamStreams \/ ReadEnds \/ ReadFails \/ WriteFails
           \/ WriteStalls \/ TerminateFails \/ SendError \/ Close
  <2>1. /\ cfg' = cfg /\ got' = got /\ todo' = todo /\ cur' = cur /\ trail' = trail
        /\ gpc' \in {"senderr", "close", "done"} \/ (gpc' = "headers" /\ cur.kind = "event")
    BY <1>2, SMT DEF UpstreamFails, UpstreamStreams, ReadEnds, ReadFails, WriteFails,
       WriteStalls, TerminateFails, SendError, Close, Control
  <2> QED
    BY <2>1, IdleAudits, SMTT(30)
<1>3. CASE ReadTooLarge
  <2>1. cfg' = cfg /\ got' = got /\ todo' = todo /\ cur' = cur /\ gpc' = "terminate"
    BY <1>3 DEF ReadTooLarge
  <2>2. trail' = trail \/ \E d, x : Emit(d, x)
    BY <1>3, Zenon DEF ReadTooLarge
  <2> QED
    BY <2>1, <2>2, IdleAudits, SMTT(30)
<1>4. CASE OnHeaders
  <2>1. /\ cfg' = cfg /\ got' = got /\ todo' = todo /\ cur' = cur /\ trail' = trail
        /\ gpc = "headers" /\ gpc' = IF cur.kind = "plain" THEN "write" ELSE "read"
    BY <1>4 DEF OnHeaders
  <2>2. Waiting' = Waiting /\ gpc' # "inspect"
    BY <2>1, SMT DEF Waiting
  <2>3. IsSeq(todo') /\ IsSeq(cur'.fragments)
    BY <2>1, Zenon DEF Audits
  <2> QED
    BY <2>1, <2>2, <2>3, QuietAudits, ZenonT(60)
<1>5. CASE Refuse \/ ReceiveHeaders \/ HeadersTimeOut \/ ReaderEOF \/ ClientGone \/ ShadowAudit
           \/ UNCHANGED vars
  <2>1. cfg' = cfg /\ got' = got /\ todo' = todo /\ cur' = cur /\ trail' = trail /\ gpc' = gpc
    BY <1>5, Zenon DEF Refuse, ReceiveHeaders, HeadersTimeOut, ReaderEOF, ClientGone,
       ShadowAudit, vars
  <2>2. Waiting' = Waiting
    BY <2>1, Zenon DEF Waiting
  <2>3. /\ IsSeq(todo') /\ IsSeq(cur'.fragments)
        /\ gpc' = "inspect" =>
             cfg.enabled /\ todo' # <<>> /\ Len(todo') <= Len(cur'.fragments)
    BY <2>1, Zenon DEF Audits
  <2> QED
    BY <2>1, <2>2, <2>3, QuietAudits, Zenon
<1> QED
  BY <1>1, <1>2, <1>3, <1>4, <1>5, AnswerAudits, InspectAudits, ReadAudits, WriteAudits, ZenonT(60)
     DEF Next, Exchange, Handler, Server

\* The invariant holds in every reachable state.
LEMMA SInvariance == Spec => []SInv
<1>1. SInv /\ [Next]_vars => SInv'
  <2> SUFFICES ASSUME Control, Rejects, Audits, Jobs, [Next]_vars PROVE SInv'
    BY DEF SInv
  <2>1. IsSeq(got)
    BY DEF Audits
  <2> QED
    BY <2>1, ControlStep, RejectsStep, AuditsStep, JobsStep, ZenonT(60) DEF SInv
<1> QED
  BY <1>1, InitSInv, PTL DEF Spec
-----------------------------------------------------------------------------
\* Once the handler has answered 403, 502, 504 or refused the request, the
\* client gets no byte of the upstream's response and no body was attached,
\* whatever the goroutine still does.
THEOREM FailedAnswersHaveNoBody == Spec => []FailedMeansNoBody
<1>1. SInv => FailedMeansNoBody
  BY SMTT(30) DEF SInv, Control, FailedMeansNoBody
<1> QED
  BY <1>1, SInvariance, PTL

\* The audit trail agrees with the exchange: the upstream is called after an
\* event that lets the request pass, every fragment that was delivered has an
\* event of its own, a rejection is the last event and the only reason of a
\* 403 or a termination, and shadow audits are of allowed texts.
THEOREM TrailIsTruthful == Spec => []TrailAgrees
<1>1. SInv => TrailAgrees
  <2> SUFFICES ASSUME Control, Rejects, Audits, Jobs PROVE TrailAgrees
    BY DEF SInv
  <2>1. Waiting \in Int /\ Waiting >= 0 /\ Cardinality(Decisions("response")) \in Nat
    BY WaitingIs
  <2>2. Cardinality(Delivered) \in Nat
    BY FS_CardinalityType DEF Audits
  <2>3. cfg.enabled => Cardinality(Delivered) + Waiting <= Cardinality(Decisions("response"))
    BY DEF Audits
  <2>4. cfg.enabled => Cardinality(Delivered) <= Cardinality(Decisions("response"))
    BY <2>1, <2>2, <2>3, SMTT(30)
  <2>5. shadows + jobs <= Cardinality(Allowed)
    BY DEF Jobs
  <2> QED
    BY <2>4, <2>5, Zenon DEF TrailAgrees, Rejects, Rejections, Allowed, Terminated
<1> QED
  BY <1>1, SInvariance, PTL
-----------------------------------------------------------------------------
(***************************************************************************)
(* The windows.                                                            *)
(***************************************************************************)
\* A span of text that reaches the client, however it was cut into fragments,
\* was inspected in one piece: no event boundary hides a part of it.
SpansInspected == cfg.enabled => \A c \in Channels : Inspected(On(c, got))

Fragment == [channel : Channels, text : Seq(STRING)]

\* The text of a channel up to the next fragment to be inspected.
Prefix == SubSeq(cur.fragments, 1, Len(cur.fragments) - Len(todo))
SoFar(c) ==
  IF gpc \in {"inspect", "write"} THEN On(c, got) \o Of(c, Prefix) ELSE On(c, got)

Reading == gpc \in {"off", "request", "headers", "read", "inspect", "write"} /\ cur.kind = "event"

\* While the goroutine reads, the window of a channel holds the end of its text.
Windowed ==
  /\ gpc \in {"off", "request", "headers"} => headerCh = <<>> /\ hpc # "streaming"
  /\ \A i \in DOMAIN got : \A c \in Channels : Of(c, got[i].fragments) \in Seq(STRING)
  /\ tails \in [Channels -> Seq(STRING)]
  /\ cur.kind = "event" => cur.fragments \in Seq(Fragment)
  /\ gpc \in {"read", "inspect"} => cur.kind = "event"
  /\ gpc = "inspect" =>
       todo = SubSeq(cur.fragments, Len(cur.fragments) - Len(todo) + 1, Len(cur.fragments))
  /\ gpc = "write" /\ cur.kind = "event" /\ cfg.enabled => todo = <<>>
  /\ cfg.enabled /\ Reading =>
       \A c \in Channels : tails[c] = Kept(SoFar(c)) /\ Inspected(SoFar(c))
  /\ gpc \in {"headers", "write"} /\ cur.kind = "plain" =>
       /\ got = <<>>
       /\ \E text \in Seq(STRING) : /\ cur.fragments = <<[channel |-> "body", text |-> text]>>
                                    /\ cfg.enabled => Passed(text)

WInv == Windowed /\ SpansInspected
-----------------------------------------------------------------------------
\* A text of fragments, one fragment more.
LEMMA OfAppend ==
  ASSUME NEW C, NEW c, NEW fs, IsSeq(fs), \A k \in DOMAIN fs : fs[k].text \in Seq(C),
         NEW f, f.text \in Seq(C)
  PROVE  /\ Of(c, fs) \in Seq(C)
         /\ Of(c, Append(fs, f)) = Of(c, fs) \o (IF f.channel = c THEN f.text ELSE <<>>)
<1> DEFINE Part(g) == IF g.channel = c THEN g.text ELSE <<>>
           ss == [k \in DOMAIN fs |-> Part(fs[k])]
           gs == Append(fs, f)
<1>1. /\ IsSeq(gs) /\ Len(gs) = Len(fs) + 1 /\ DOMAIN fs = 1..Len(fs)
      /\ DOMAIN gs = DOMAIN fs \cup {Len(fs) + 1} /\ Len(fs) + 1 \notin DOMAIN fs
      /\ \A i \in DOMAIN fs : gs[i] = fs[i]
      /\ gs[Len(fs) + 1] = f
  BY AppendIs, SMTT(30)
<1>2. Len(fs) \in Nat
  BY DEF IsSeq
<1>0. <<>> \in Seq(C)
  BY SMT
<1>3. \A k \in DOMAIN fs : Part(fs[k]) \in Seq(C)
  BY <1>0, Zenon
<1>4. Part(f) \in Seq(C)
  BY <1>0, Zenon
<1> HIDE DEF Part
<1>5. ss \in Seq(Seq(C)) /\ Len(ss) = Len(fs)
  BY <1>1, <1>2, <1>3, SMTT(30)
<1>6. IsSeq(ss) /\ \A i \in 1..Len(ss) : ss[i] \in Seq(C)
  BY <1>1, <1>3, <1>5, SeqIsSeq, Zenon
<1>7. [k \in DOMAIN gs |-> Part(gs[k])] = Append(ss, Part(f))
  BY <1>1, <1>2, <1>5, SMTT(30)
<1>8. Of(c, fs) = FlattenSeq(ss)
  BY Zenon DEF Of, Part
<1>9. Of(c, gs) = FlattenSeq([k \in DOMAIN gs |-> Part(gs[k])])
  BY Zenon DEF Of, Part
<1> HIDE DEF ss, gs
<1>10. FlattenSeq(ss) \in Seq(C) /\ FlattenSeq(Append(ss, Part(f))) = FlattenSeq(ss) \o Part(f)
  BY <1>4, <1>6, FlattenAppend
<1> QED
  BY <1>7, <1>8, <1>9, <1>10, ZenonT(60) DEF gs, Part

\* A text of pieces, one piece more.
LEMMA OnAppend ==
  ASSUME NEW C, NEW c, NEW ps, IsSeq(ps),
         \A k \in DOMAIN ps : Of(c, ps[k].fragments) \in Seq(C),
         NEW p, Of(c, p.fragments) \in Seq(C)
  PROVE  /\ On(c, ps) \in Seq(C)
         /\ On(c, Append(ps, p)) = On(c, ps) \o Of(c, p.fragments)
<1> DEFINE Part(q) == Of(c, q.fragments)
           ss == [k \in DOMAIN ps |-> Part(ps[k])]
           qs == Append(ps, p)
<1>1. /\ IsSeq(qs) /\ Len(qs) = Len(ps) + 1 /\ DOMAIN ps = 1..Len(ps)
      /\ DOMAIN qs = DOMAIN ps \cup {Len(ps) + 1} /\ Len(ps) + 1 \notin DOMAIN ps
      /\ \A i \in DOMAIN ps : qs[i] = ps[i]
      /\ qs[Len(ps) + 1] = p
  BY AppendIs
<1>2. Len(ps) \in Nat
  BY DEF IsSeq
<1>3. (\A k \in DOMAIN ps : Part(ps[k]) \in Seq(C)) /\ Part(p) \in Seq(C)
  OBVIOUS
<1> HIDE DEF Part
<1>5. ss \in Seq(Seq(C)) /\ Len(ss) = Len(ps)
  BY <1>1, <1>2, <1>3, SMTT(30)
<1>6. IsSeq(ss) /\ \A i \in 1..Len(ss) : ss[i] \in Seq(C)
  BY <1>1, <1>3, <1>5, SeqIsSeq, Zenon
<1>7. [k \in DOMAIN qs |-> Part(qs[k])] = Append(ss, Part(p))
  BY <1>1, <1>2, <1>5, SMTT(30)
<1>8. On(c, ps) = FlattenSeq(ss)
  BY Zenon DEF On, Part
<1>9. On(c, qs) = FlattenSeq([k \in DOMAIN qs |-> Part(qs[k])])
  BY Zenon DEF On, Part
<1> HIDE DEF ss, qs
<1>10. FlattenSeq(ss) \in Seq(C) /\ FlattenSeq(Append(ss, Part(p))) = FlattenSeq(ss) \o Part(p)
  BY <1>3, <1>6, FlattenAppend, SMTT(30)
<1> QED
  BY <1>7, <1>8, <1>9, <1>10, ZenonT(60) DEF qs, Part

\* Nothing was said on a channel by no fragments and no pieces.
LEMMA NothingOn == \A c : Of(c, <<>>) = <<>> /\ On(c, <<>>) = <<>>
<1> TAKE c
<1>1. [k \in DOMAIN <<>> |-> IF <<>>[k].channel = c THEN <<>>[k].text ELSE <<>>] = <<>>
  BY SMT
<1>2. [k \in DOMAIN <<>> |-> Of(c, <<>>[k].fragments)] = <<>>
  BY SMT
<1>3. Len(<<>>) = 0
  BY SMT
<1>4. FlattenSeq(<<>>) = <<>>
  BY <1>3, Zenon DEF FlattenSeq
<1> QED
  BY <1>1, <1>2, <1>4, Zenon DEF Of, On
-----------------------------------------------------------------------------
\* The texts are texts.
LEMMA OfIsText ==
  ASSUME NEW c, NEW fs \in Seq(Fragment) PROVE Of(c, fs) \in Seq(STRING)
<1>1. IsSeq(fs)
  BY SeqIsSeq
<1>2. \A k \in DOMAIN fs : fs[k].text \in Seq(STRING)
  <2>1. \A k \in DOMAIN fs : fs[k] \in Fragment
    BY SMT
  <2> QED
    BY <2>1, Zenon DEF Fragment
<1>3. PICK f : f = [channel |-> "body", text |-> <<>>]
  BY Zenon
<1>4. f.text \in Seq(STRING)
  <2>1. \A S : <<>> \in Seq(S)
    BY SMTT(30)
  <2> QED
    BY <1>3, <2>1
<1> QED
  BY <1>1, <1>2, <1>4, OfAppend, SMTT(30)

\* What pieces carry on a channel is a text, if what each carries is one.
LEMMA OnIsText ==
  ASSUME NEW c, NEW ps, IsSeq(ps), \A k \in DOMAIN ps : Of(c, ps[k].fragments) \in Seq(STRING)
  PROVE  On(c, ps) \in Seq(STRING)
<1>1. PICK p : p = [fragments |-> <<>>]
  BY Zenon
<1>2. Of(c, p.fragments) \in Seq(STRING)
  <2>1. \A S : <<>> \in Seq(S)
    BY SMT
  <2> QED
    BY <1>1, <2>1, NothingOn, Zenon
<1> QED
  BY <1>2, OnAppend

\* A step that leaves the windows and the texts.
LEMMA StillWindowed ==
  ASSUME Control, Windowed, UNCHANGED <<cfg, got, cur, todo, tails>>,
         \/ gpc' = gpc
         \/ gpc' \in {"senderr", "close", "done", "terminate", "reject"}
         \/ gpc \in {"off", "request", "headers"} /\ gpc' \in {"request", "headers", "read"}
            /\ cur.kind = "event"
         \/ gpc = "headers" /\ gpc' = "write" /\ cur.kind = "plain",
         gpc' \in {"off", "request", "headers"} => headerCh' = <<>> /\ hpc' # "streaming"
  PROVE  Windowed' /\ (SpansInspected => SpansInspected')
<1>1. SpansInspected => SpansInspected'
  BY Zenon DEF SpansInspected
<1>2. /\ \A i \in DOMAIN got' : \A c \in Channels : Of(c, got'[i].fragments) \in Seq(STRING)
      /\ tails' \in [Channels -> Seq(STRING)]
      /\ cur'.kind = "event" => cur'.fragments \in Seq(Fragment)
  BY Zenon DEF Windowed
<1>3. /\ gpc' = "inspect" => gpc = "inspect"
      /\ gpc' = "write" => gpc = "write" \/ (gpc = "headers" /\ cur.kind = "plain")
      /\ gpc' = "headers" => gpc = "headers" \/ cur.kind = "event"
      /\ gpc' = "read" => gpc = "read" \/ cur.kind = "event"
  OBVIOUS
<1>4. "event" # "plain"
  OBVIOUS
<1>5. /\ gpc' = "inspect" =>
           todo' = SubSeq(cur'.fragments, Len(cur'.fragments) - Len(todo') + 1,
                          Len(cur'.fragments))
      /\ gpc' \in {"read", "inspect"} => cur'.kind = "event"
      /\ gpc' = "write" /\ cur'.kind = "event" /\ cfg'.enabled => todo' = <<>>
  BY <1>3, <1>4, Zenon DEF Windowed
<1>6. ASSUME cfg'.enabled, Reading'
      PROVE  \A c \in Channels : tails'[c] = Kept(SoFar(c)') /\ Inspected(SoFar(c)')
  <2>1. cfg.enabled /\ cur.kind = "event"
    BY <1>6, Zenon DEF Reading
  <2>2. Reading
    BY <1>6, <2>1, <1>4, SMTT(30) DEF Reading
  <2>3. gpc' \in {"inspect", "write"} <=> gpc \in {"inspect", "write"}
    BY <1>6, <2>1, <1>4, SMTT(30) DEF Reading
  <2>4. \A c : SoFar(c)' = SoFar(c)
    BY <2>3, Zenon DEF SoFar, Prefix
  <2> QED
    BY <2>1, <2>2, <2>4, Zenon DEF Windowed
<1>7. ASSUME gpc' \in {"headers", "write"}, cur'.kind = "plain"
      PROVE  /\ got' = <<>>
             /\ \E text \in Seq(STRING) :
                  /\ cur'.fragments = <<[channel |-> "body", text |-> text]>>
                  /\ cfg'.enabled => Passed(text)
  <2>1. gpc \in {"headers", "write"}
    BY <1>3, <1>4, <1>7, Zenon
  <2> QED
    BY <1>7, <2>1, Zenon DEF Windowed
<1>8. Windowed'
  BY <1>2, <1>5, <1>6, <1>7, Zenon DEF Windowed
<1> QED
  BY <1>1, <1>8
-----------------------------------------------------------------------------
\* Nothing was read, and the windows are empty, at first.
LEMMA InitWInv == Init => WInv
<1> SUFFICES ASSUME Init PROVE WInv
  OBVIOUS
<1>1. /\ hpc = "start" /\ gpc = "off" /\ cur = Piece("event", <<>>) /\ todo = <<>>
      /\ tails = [c \in Channels |-> <<>>] /\ headerCh = <<>> /\ got = <<>>
  BY Zenon DEF Init
<1>2. cur.kind = "event" /\ cur.fragments = <<>>
  BY <1>1, SMT DEF Piece
<1>3. \A S : <<>> \in Seq(S)
  BY SMT
<1>4. DOMAIN got = {}
  BY <1>1, SMT
<1>5. tails \in [Channels -> Seq(STRING)] /\ \A c \in Channels : tails[c] = <<>>
  BY <1>1, <1>3, Zenon
<1>6. \A c \in Channels : SoFar(c) = <<>> /\ On(c, got) = <<>>
  BY <1>1, NothingOn, Zenon DEF SoFar
<1>7. /\ "off" # "inspect" /\ "off" # "write" /\ "off" # "headers" /\ "off" # "read"
      /\ "start" # "streaming"
  OBVIOUS
<1>8. Windowed
  BY <1>1, <1>2, <1>3, <1>4, <1>5, <1>6, <1>7, InspectedNothing, ZenonT(60) DEF Windowed
<1>9. SpansInspected
  BY <1>6, InspectedNothing, Zenon DEF SpansInspected
<1> QED
  BY <1>8, <1>9 DEF WInv

\* Before the headers nothing was received.
LEMMA NothingYet ==
  ASSUME Control, Windowed, gpc \in {"off", "request", "headers"} PROVE got = <<>>
  BY Zenon DEF Control, Windowed

\* A plain body that the rules let pass waits for the headers.
LEMMA AnswerWindowed ==
  ASSUME Control, Windowed, UpstreamAnswers
  PROVE  Windowed' /\ (SpansInspected => SpansInspected')
<1>1. PICK text \in Bodies : \E decision \in Verdict(text, Default) :
        /\ cur' = Piece("plain", <<[channel |-> "body", text |-> text]>>)
        /\ IF ~cfg.enabled THEN Goto("headers") /\ UNCHANGED <<trail, jobs>>
           ELSE /\ Emit("response", decision)
                /\ Goto(IF decision = "block" THEN "reject" ELSE "headers")
  BY Zenon DEF UpstreamAnswers
<1>2. /\ gpc = "request" /\ cfg' = cfg /\ hpc' = hpc /\ got' = got /\ tails' = tails
      /\ headerCh' = headerCh
  BY Zenon DEF UpstreamAnswers, request, transport
<1>3. cur'.kind = "plain" /\ cur'.fragments = <<[channel |-> "body", text |-> text]>>
  BY <1>1, SMT DEF Piece
<1>4. /\ gpc' \in {"headers", "reject"}
      /\ cfg.enabled /\ gpc' = "headers" => Passed(text)
  BY <1>1, SMT DEF Goto, Passed
<1>5. got = <<>> /\ headerCh = <<>> /\ hpc # "streaming"
  BY <1>2, NothingYet, Zenon DEF Windowed
<1>6. text \in Seq(STRING)
  BY ExchangeAssumption, Zenon DEF ExchangeAssumption
<1>7. SpansInspected => SpansInspected'
  BY <1>2, Zenon DEF SpansInspected
<1>8. gpc' # "inspect" /\ gpc' # "read" /\ gpc' # "write" /\ cur'.kind # "event"
  BY <1>3, <1>4, SMTT(30)
<1>9. /\ \A i \in DOMAIN got' : \A c \in Channels : Of(c, got'[i].fragments) \in Seq(STRING)
      /\ tails' \in [Channels -> Seq(STRING)]
  BY <1>2, Zenon DEF Windowed
<1>10. gpc' \in {"headers", "write"} => gpc' = "headers"
  BY <1>4, SMT
<1>11. ~Reading'
  BY <1>8, Zenon DEF Reading
<1>12. Windowed'
  BY <1>2, <1>3, <1>4, <1>5, <1>6, <1>8, <1>9, <1>10, <1>11, ZenonT(60) DEF Windowed
<1> QED
  BY <1>7, <1>12

\* stream.Copy reads an event: none of its fragments is inspected yet.
LEMMA ReadWindowed ==
  ASSUME Control, Windowed, IsSeq(got), ReadEvent
  PROVE  Windowed' /\ (SpansInspected => SpansInspected')
<1>1. PICK event \in Events : /\ cur' = Piece("event", event)
                              /\ todo' = IF cfg.enabled THEN event ELSE <<>>
  BY Zenon DEF ReadEvent
<1>2. /\ gpc = "read" /\ cfg' = cfg /\ hpc' = hpc /\ got' = got /\ tails' = tails
      /\ gpc' = IF cancelled THEN "senderr" ELSE IF todo' = <<>> THEN "write" ELSE "inspect"
  BY Zenon DEF ReadEvent, request, transport, Goto
<1>3. cur'.kind = "event" /\ cur'.fragments = event
  BY <1>1, SMT DEF Piece
<1>4. event \in Seq(Fragment)
  BY ExchangeAssumption, Zenon DEF ExchangeAssumption, Fragment
<1>5. gpc' \in {"senderr", "write", "inspect"} /\ (gpc' = "write" => todo' = <<>>)
      /\ (gpc' = "inspect" => todo' # <<>>)
  BY <1>2, SMTT(30)
<1>6. Len(event) \in Nat /\ SubSeq(event, 1, 0) = <<>> /\ SubSeq(event, 1, Len(event)) = event
      /\ Len(event) - Len(event) = 0 /\ 0 + 1 = 1
  BY <1>4, SMTT(30)
<1>7. gpc' = "inspect" => todo' = event
  BY <1>1, <1>5, Zenon
<1>8. gpc' = "inspect" => todo' = SubSeq(cur'.fragments, Len(cur'.fragments) - Len(todo') + 1,
                                         Len(cur'.fragments))
  BY <1>3, <1>6, <1>7, Zenon
<1>9. /\ \A i \in DOMAIN got' : \A c \in Channels : Of(c, got'[i].fragments) \in Seq(STRING)
      /\ tails' \in [Channels -> Seq(STRING)]
  BY <1>2, Zenon DEF Windowed
<1>10. ASSUME cfg'.enabled, Reading'
       PROVE  \A c \in Channels : tails'[c] = Kept(SoFar(c)') /\ Inspected(SoFar(c)')
  <2>1. Prefix' = <<>>
    BY <1>1, <1>2, <1>3, <1>6, <1>10, Zenon DEF Prefix
  <2>2. cfg.enabled /\ Reading
    <3>1. gpc \in {"off", "request", "headers", "read", "inspect", "write"}
      BY <1>2
    <3> QED
      BY <1>2, <1>10, <3>1, Zenon DEF Reading, Windowed
  <2>3. \A c \in Channels : tails[c] = Kept(SoFar(c)) /\ Inspected(SoFar(c))
    BY <2>2, Zenon DEF Windowed
  <2>4. \A c \in Channels : SoFar(c)' = SoFar(c)
    <3> TAKE c \in Channels
    <3>1. SoFar(c) = On(c, got)
      <4>1. gpc \notin {"inspect", "write"}
        BY <1>2
      <4> QED
        BY <4>1, Zenon DEF SoFar
    <3>2. \A i \in DOMAIN got : Of(c, got[i].fragments) \in Seq(STRING)
      BY Zenon DEF Windowed
    <3>3. On(c, got) \in Seq(STRING)
      BY <3>2, OnIsText
    <3>4. On(c, got) \o <<>> = On(c, got)
      BY <3>3, ConcatNothing
    <3>5. SoFar(c)' = IF gpc' \in {"inspect", "write"} THEN On(c, got) \o <<>> ELSE On(c, got)
      BY <1>2, <2>1, NothingOn, Zenon DEF SoFar
    <3> QED
      BY <3>1, <3>4, <3>5, Zenon
  <2> QED
    BY <1>2, <2>3, <2>4, Zenon
<1>11. SpansInspected => SpansInspected'
  BY <1>2, Zenon DEF SpansInspected
<1>12. /\ gpc' \notin {"off", "request", "headers"}
       /\ ~(cur'.kind = "plain")
       /\ gpc' = "write" /\ cur'.kind = "event" /\ cfg'.enabled => todo' = <<>>
  BY <1>3, <1>5, SMTT(30)
<1>13. Windowed'
  BY <1>3, <1>4, <1>8, <1>9, <1>10, <1>12, ZenonT(60) DEF Windowed
<1> QED
  BY <1>11, <1>13
-----------------------------------------------------------------------------
\* inspect takes the fragments of an event in their order.
LEMMA PrefixGrows ==
  ASSUME NEW F, NEW fs \in Seq(F), NEW td, IsSeq(td), td # <<>>, Len(td) <= Len(fs),
         td = SubSeq(fs, Len(fs) - Len(td) + 1, Len(fs))
  PROVE  /\ Head(td) \in F
         /\ SubSeq(fs, 1, Len(fs) - Len(td)) \in Seq(F)
         /\ SubSeq(fs, 1, Len(fs) - Len(Tail(td))) =
              Append(SubSeq(fs, 1, Len(fs) - Len(td)), Head(td))
         /\ Tail(td) = SubSeq(fs, Len(fs) - Len(Tail(td)) + 1, Len(fs))
<1>1. PICK n : n = Len(fs) - Len(td)
  OBVIOUS
<1>2. /\ Len(td) \in Nat /\ Len(fs) \in Nat /\ Len(Tail(td)) = Len(td) - 1 /\ Len(td) > 0
  BY TailIs, SMTT(30) DEF IsSeq
<1>3. n \in Nat /\ n < Len(fs) /\ Len(fs) - Len(Tail(td)) = n + 1 /\ Len(td) = Len(fs) - n
  BY <1>1, <1>2, SMTT(30)
<1>4. td = SubSeq(fs, n + 1, Len(fs))
  BY <1>1
<1>5. td \in Seq(F) /\ \A k \in 1..Len(td) : td[k] = fs[n + k]
  <2>1. /\ n + 1 \in Int /\ Len(fs) \in Int /\ 1 <= n + 1 /\ Len(fs) <= Len(fs)
        /\ n + 1 <= Len(fs) + 1 /\ Len(fs) - (n + 1) + 1 = Len(td)
        /\ \A k \in 1..Len(td) : (n + 1) + k - 1 = n + k
    BY <1>2, <1>3, SMTT(30)
  <2>2. /\ SubSeq(fs, n + 1, Len(fs)) \in Seq(F)
        /\ \A k \in 1..(Len(fs) - (n + 1) + 1) :
             SubSeq(fs, n + 1, Len(fs))[k] = fs[(n + 1) + k - 1]
    BY <2>1, PartIs, ZenonT(60)
  <2> QED
    BY <1>4, <2>1, <2>2, Zenon
<1>6. Head(td) = fs[n + 1] /\ Head(td) \in F
  BY <1>2, <1>5, SMT
<1>7. SubSeq(fs, 1, n) \in Seq(F)
  BY <1>3, SMT
<1>8. SubSeq(fs, 1, n + 1) = Append(SubSeq(fs, 1, n), fs[n + 1])
  BY <1>3, SMT
<1>9. Tail(td) = SubSeq(fs, n + 2, Len(fs))
  BY <1>2, <1>3, <1>5, SMT
<1>10. n + 2 = (n + 1) + 1
  BY <1>3, SMT
<1> QED
  BY <1>1, <1>3, <1>6, <1>7, <1>8, <1>9, <1>10, ZenonT(60)

\* A fragment that passes moves the window of its channel, and of no other,
\* along the text of that channel.
LEMMA InspectWindowed ==
  ASSUME Control, Audits, Windowed, InspectFragment
  PROVE  Windowed' /\ (SpansInspected => SpansInspected')
<1> DEFINE f == Head(todo)
<1>1. PICK decision \in Verdict(Feed(tails, f).seen, Default) :
        /\ tails' = Feed(tails, f).tails
        /\ todo' = IF decision = "block" THEN todo ELSE Tail(todo)
        /\ gpc' = CASE decision = "block" -> "terminate"
                    [] decision # "block" /\ todo' = <<>> -> "write"
                    [] OTHER -> "inspect"
  BY Zenon DEF InspectFragment, Goto
<1>2. /\ gpc = "inspect" /\ cfg' = cfg /\ hpc' = hpc /\ got' = got /\ cur' = cur
      /\ headerCh' = headerCh
  BY Zenon DEF InspectFragment, request, transport
<1>3. /\ gpc' \in {"terminate", "write", "inspect"}
      /\ gpc' # "terminate" => decision # "block" /\ todo' = Tail(todo)
      /\ gpc' = "write" => todo' = <<>>
  BY <1>1, SMT
<1>4. /\ cur.kind = "event" /\ cur.fragments \in Seq(Fragment) /\ cfg.enabled
      /\ todo = SubSeq(cur.fragments, Len(cur.fragments) - Len(todo) + 1, Len(cur.fragments))
      /\ IsSeq(todo) /\ todo # <<>> /\ Len(todo) <= Len(cur.fragments)
  <2>1. gpc \in {"read", "inspect"}
    BY <1>2
  <2> QED
    BY <1>2, <2>1, Zenon DEF Windowed, Audits
<1>5. /\ f \in Fragment /\ Prefix \in Seq(Fragment)
      /\ gpc' # "terminate" => Prefix' = Append(Prefix, f)
      /\ gpc' # "terminate" =>
           todo' = SubSeq(cur'.fragments, Len(cur'.fragments) - Len(todo') + 1,
                          Len(cur'.fragments))
  <2>1. /\ f \in Fragment
        /\ SubSeq(cur.fragments, 1, Len(cur.fragments) - Len(todo)) \in Seq(Fragment)
        /\ SubSeq(cur.fragments, 1, Len(cur.fragments) - Len(Tail(todo))) =
             Append(SubSeq(cur.fragments, 1, Len(cur.fragments) - Len(todo)), f)
        /\ Tail(todo) = SubSeq(cur.fragments, Len(cur.fragments) - Len(Tail(todo)) + 1,
                               Len(cur.fragments))
    BY <1>4, PrefixGrows, Zenon
  <2> QED
    BY <1>2, <1>3, <2>1, Zenon DEF Prefix
<1> HIDE DEF f
<1>6. f.channel \in Channels /\ f.text \in Seq(STRING)
  BY <1>5, Zenon DEF Fragment
<1>7. tails \in [Channels -> Seq(STRING)]
  BY Zenon DEF Windowed
<1>8. /\ Feed(tails, f).seen = tails[f.channel] \o f.text
      /\ tails' = [tails EXCEPT ![f.channel] = Kept(tails[f.channel] \o f.text)]
  BY <1>1, Zenon DEF Feed
<1>9. tails[f.channel] \o f.text \in Seq(STRING) /\ Kept(tails[f.channel] \o f.text) \in Seq(STRING)
  <2>1. tails[f.channel] \in Seq(STRING)
    BY <1>6, <1>7, Zenon
  <2>2. tails[f.channel] \o f.text \in Seq(STRING)
    BY <1>6, <2>1, ConcatIs, SMTT(30)
  <2> QED
    BY <2>2, KeptIs, Zenon
<1>10. /\ tails' \in [Channels -> Seq(STRING)]
       /\ tails'[f.channel] = Kept(tails[f.channel] \o f.text)
       /\ \A c \in Channels : c # f.channel => tails'[c] = tails[c]
  BY <1>6, <1>7, <1>8, <1>9, Zenon
<1>11. \A c \in Channels : /\ SoFar(c) = On(c, got) \o Of(c, Prefix)
                           /\ tails[c] = Kept(SoFar(c)) /\ Inspected(SoFar(c))
  <2>1. Reading /\ gpc \in {"inspect", "write"}
    BY <1>2, <1>4, SMTT(30) DEF Reading
  <2> QED
    BY <1>4, <2>1, Zenon DEF SoFar, Windowed
<1>12. \A c \in Channels : On(c, got) \in Seq(STRING) /\ Of(c, Prefix) \in Seq(STRING)
  <2> TAKE c \in Channels
  <2>1. IsSeq(got) /\ \A i \in DOMAIN got : Of(c, got[i].fragments) \in Seq(STRING)
    BY Zenon DEF Windowed, Audits
  <2> QED
    BY <1>5, <2>1, OnIsText, OfIsText, SMTT(30)
<1>13. ASSUME gpc' # "terminate", NEW c \in Channels
       PROVE  tails'[c] = Kept(SoFar(c)') /\ Inspected(SoFar(c)')
  <2>1. SoFar(c)' = On(c, got) \o Of(c, Append(Prefix, f))
    <3>1. gpc' \in {"inspect", "write"}
      BY <1>3, <1>13, SMTT(30)
    <3> QED
      BY <1>2, <1>5, <1>13, <3>1, Zenon DEF SoFar
  <2>2. Of(c, Append(Prefix, f)) = Of(c, Prefix) \o (IF f.channel = c THEN f.text ELSE <<>>)
    <3>1. IsSeq(Prefix)
      BY <1>5, SeqIsSeq
    <3>2. \A k \in DOMAIN Prefix : Prefix[k] \in Fragment
      <4>1. \A F : \A s \in Seq(F) : \A k \in DOMAIN s : s[k] \in F
        BY SMT
      <4> QED
        BY <1>5, <4>1, Zenon
    <3>3. \A k \in DOMAIN Prefix : Prefix[k].text \in Seq(STRING)
      BY <3>2, Zenon DEF Fragment
    <3> QED
      BY <1>6, <3>1, <3>3, OfAppend, SMTT(30)
  <2>3. CASE f.channel = c
    <3>1. SoFar(c)' = SoFar(c) \o f.text
      <4>1. On(c, got) \in Seq(STRING) /\ Of(c, Prefix) \in Seq(STRING)
        BY <1>12
      <4>2. (On(c, got) \o Of(c, Prefix)) \o f.text = On(c, got) \o (Of(c, Prefix) \o f.text)
        <5>1. PICK a, b, d : a = On(c, got) /\ b = Of(c, Prefix) /\ d = f.text
          OBVIOUS
        <5>2. a \in Seq(STRING) /\ b \in Seq(STRING) /\ d \in Seq(STRING)
          BY <1>6, <4>1, <5>1, Zenon
        <5>3. (a \o b) \o d = a \o (b \o d)
          BY <5>2, ConcatThree, SMTT(30)
        <5> QED
          BY <5>1, <5>3, Zenon
      <4> QED
        BY <1>11, <2>1, <2>2, <2>3, <4>2, ZenonT(60)
    <3>2. SoFar(c) \in Seq(STRING)
      <4>1. On(c, got) \in Seq(STRING) /\ Of(c, Prefix) \in Seq(STRING)
        BY <1>12
      <4> QED
        BY <1>11, <4>1, ConcatIs, Zenon
    <3>3. tails[c] = Kept(SoFar(c)) /\ Inspected(SoFar(c))
      BY <1>11
    <3>4. Passed(Kept(SoFar(c)) \o f.text)
      BY <1>1, <1>3, <1>8, <1>13, <2>3, <3>3, ZenonT(60) DEF Passed
    <3>5. Inspected(SoFar(c) \o f.text)
      BY <1>6, <3>2, <3>3, <3>4, InspectedGrows, SMTT(30)
    <3>6. Kept(Kept(SoFar(c)) \o f.text) = Kept(SoFar(c) \o f.text)
      BY <1>6, <3>2, KeptConcat, SMTT(30)
    <3> QED
      BY <1>10, <2>3, <3>1, <3>3, <3>5, <3>6, ZenonT(60)
  <2>4. CASE f.channel # c
    <3>1. Of(c, Prefix) \o <<>> = Of(c, Prefix)
      BY <1>12, ConcatNothing
    <3>2. SoFar(c)' = SoFar(c)
      BY <1>11, <2>1, <2>2, <2>4, <3>1, Zenon
    <3> QED
      BY <1>10, <1>11, <2>4, <3>2, Zenon
  <2> QED
    BY <2>3, <2>4, SMTT(30)
<1>14. Reading' => gpc' # "terminate"
  BY SMT DEF Reading
<1>15. SpansInspected => SpansInspected'
  BY <1>2, Zenon DEF SpansInspected
<1>16. /\ \A i \in DOMAIN got' : \A c \in Channels : Of(c, got'[i].fragments) \in Seq(STRING)
       /\ cur'.kind = "event" /\ cur'.fragments \in Seq(Fragment)
  BY <1>2, <1>4, Zenon DEF Windowed
<1>17. /\ gpc' \notin {"off", "request", "headers"} /\ ~(cur'.kind = "plain")
       /\ gpc' = "inspect" => gpc' # "terminate"
  BY <1>3, <1>16, SMTT(30)
<1>18. Windowed'
  BY <1>3, <1>5, <1>10, <1>13, <1>14, <1>16, <1>17, ZenonT(60) DEF Windowed
<1> QED
  BY <1>15, <1>18
-----------------------------------------------------------------------------
\* What the client receives of an event is what was inspected, and a plain body
\* passed as a whole.
LEMMA WriteWindowed ==
  ASSUME Control, Audits, Windowed, SpansInspected, WriteDrained
  PROVE  Windowed' /\ SpansInspected'
<1>1. /\ gpc = "write" /\ got' = Append(got, cur) /\ cfg' = cfg /\ cur' = cur
      /\ tails' = tails /\ todo' = todo
      /\ gpc' = IF cur.kind = "plain" THEN "close" ELSE "read"
  BY Zenon DEF WriteDrained, Goto, request, inspection
<1>2. /\ IsSeq(got) /\ \A i \in DOMAIN got : \A c \in Channels :
                         Of(c, got[i].fragments) \in Seq(STRING)
  BY Zenon DEF Windowed, Audits
<1>3. /\ cur.kind \in {"event", "plain"}
      /\ cur.kind = "event" => cur.fragments \in Seq(Fragment)
  BY Zenon DEF Control, Windowed
<1>4. cur.kind = "plain" =>
        /\ got = <<>>
        /\ \E text \in Seq(STRING) : /\ cur.fragments = <<[channel |-> "body", text |-> text]>>
                                     /\ cfg.enabled => Passed(text)
  <2>1. gpc \in {"headers", "write"}
    BY <1>1
  <2> QED
    BY <2>1, Zenon DEF Windowed
<1>5. ASSUME cur.kind = "plain", NEW c \in Channels
      PROVE  /\ Of(c, cur.fragments) \in Seq(STRING)
             /\ cfg.enabled => Inspected(Of(c, cur.fragments))
  <2>1. PICK text \in Seq(STRING) : /\ cur.fragments = <<[channel |-> "body", text |-> text]>>
                                    /\ cfg.enabled => Passed(text)
    BY <1>4, <1>5, Zenon
  <2>2. PICK f : f = [channel |-> "body", text |-> text]
    BY Zenon
  <2>3. f.channel = "body" /\ f.text = text
    BY <2>2
  <2>4. cur.fragments = Append(<<>>, f)
    BY <2>1, <2>2, SMT
  <2>5. IsSeq(<<>>) /\ DOMAIN <<>> = {}
    BY SMT DEF IsSeq
  <2>6. /\ Of(c, <<>>) \in Seq(STRING)
        /\ Of(c, Append(<<>>, f)) = Of(c, <<>>) \o (IF f.channel = c THEN f.text ELSE <<>>)
    <3>1. \A k \in DOMAIN <<>> : <<>>[k].text \in Seq(STRING)
      BY <2>5
    <3>2. f.text \in Seq(STRING)
      BY <2>3
    <3>3. PICK e : e = <<>>
      OBVIOUS
    <3>4. IsSeq(e) /\ \A k \in DOMAIN e : e[k].text \in Seq(STRING)
      BY <2>5, <3>1, <3>3, Zenon
    <3>5. /\ Of(c, e) \in Seq(STRING)
          /\ Of(c, Append(e, f)) = Of(c, e) \o (IF f.channel = c THEN f.text ELSE <<>>)
      BY <3>2, <3>4, OfAppend, SMTT(30)
    <3> QED
      BY <3>3, <3>5, Zenon
  <2>7. Of(c, cur.fragments) = <<>> \o (IF f.channel = c THEN text ELSE <<>>)
    BY <2>3, <2>4, <2>6, NothingOn, Zenon
  <2>8. <<>> \o text = text /\ <<>> \o <<>> = <<>> /\ <<>> \in Seq(STRING)
    <3>1. <<>> \o text = text
      BY ConcatNothing
    <3>2. \A S : <<>> \in Seq(S)
      BY SMT
    <3>3. <<>> \in Seq(STRING)
      BY <3>2
    <3>4. <<>> \o <<>> = <<>>
      BY <3>3, ConcatNothing, SMTT(30)
    <3> QED
      BY <3>1, <3>3, <3>4
  <2>9. Of(c, cur.fragments) \in {text, <<>>}
    BY <2>7, <2>8, SMTT(30)
  <2>10. cfg.enabled => Inspected(text)
    BY <2>1, InspectedWhole, SMTT(30)
  <2> QED
    BY <2>8, <2>9, <2>10, InspectedNothing, Zenon
<1>6. \A c \in Channels : Of(c, cur.fragments) \in Seq(STRING)
  BY <1>3, <1>5, OfIsText, SMTT(30)
<1>7. \A c \in Channels : /\ On(c, got) \in Seq(STRING)
                          /\ On(c, got)' = On(c, got) \o Of(c, cur.fragments)
  <2> TAKE c \in Channels
  <2>1. /\ On(c, got) \in Seq(STRING)
        /\ On(c, Append(got, cur)) = On(c, got) \o Of(c, cur.fragments)
    BY <1>2, <1>6, OnAppend
  <2> QED
    BY <1>1, <2>1, Zenon
<1>8. \A i \in DOMAIN got' : \A c \in Channels : Of(c, got'[i].fragments) \in Seq(STRING)
  <2>1. /\ DOMAIN got' = DOMAIN got \cup {Len(got) + 1}
        /\ \A i \in DOMAIN got : got'[i] = got[i]
        /\ got'[Len(got) + 1] = cur
    BY <1>1, <1>2, AppendIs
  <2> QED
    BY <1>2, <1>6, <2>1, Zenon
<1>9. ASSUME cur.kind = "plain" PROVE SpansInspected'
  <2>1. \A c \in Channels : On(c, got)' = Of(c, cur.fragments)
    <3> TAKE c \in Channels
    <3>1. On(c, got) = <<>>
      BY <1>4, <1>9, NothingOn, Zenon
    <3>2. <<>> \o Of(c, cur.fragments) = Of(c, cur.fragments)
      BY <1>6, ConcatNothing
    <3> QED
      BY <1>7, <3>1, <3>2, Zenon
  <2> QED
    BY <1>1, <1>5, <1>9, <2>1, Zenon DEF SpansInspected
<1>10. ASSUME cur.kind = "event", cfg.enabled, NEW c \in Channels
       PROVE  On(c, got)' = SoFar(c) /\ tails[c] = Kept(SoFar(c)) /\ Inspected(SoFar(c))
  <2>1. Reading /\ gpc \in {"inspect", "write"}
    BY <1>1, <1>10, SMTT(30) DEF Reading
  <2>2. todo = <<>>
    BY <1>1, <1>10, Zenon DEF Windowed
  <2>3. Prefix = cur.fragments
    <3>1. \A F : \A s \in Seq(F) : SubSeq(s, 1, Len(s) - 0) = s
      BY SMT
    <3>2. Len(<<>>) = 0
      BY SMT
    <3> QED
      BY <1>3, <1>10, <2>2, <3>1, <3>2, ZenonT(60) DEF Prefix
  <2> QED
    BY <1>7, <1>10, <2>1, <2>3, ZenonT(60) DEF SoFar, Windowed
<1>11. ASSUME cur.kind = "event" PROVE SpansInspected'
  BY <1>1, <1>10, <1>11, Zenon DEF SpansInspected
<1>12. ASSUME cfg'.enabled, Reading'
       PROVE  \A c \in Channels : tails'[c] = Kept(SoFar(c)') /\ Inspected(SoFar(c)')
  <2>1. gpc' \notin {"inspect", "write"} /\ cur.kind = "event" /\ cfg.enabled
    BY <1>1, <1>3, <1>12, SMTT(30) DEF Reading
  <2>2. \A c \in Channels : SoFar(c)' = On(c, got)'
    BY <2>1, Zenon DEF SoFar
  <2> QED
    BY <1>1, <1>10, <2>1, <2>2, Zenon
<1>13. /\ gpc' \notin {"off", "request", "headers"} /\ gpc' \notin {"headers", "write"}
       /\ gpc' # "inspect" /\ gpc' # "write"
       /\ gpc' \in {"read", "inspect"} => cur'.kind = "event"
  BY <1>1, <1>3, SMTT(30)
<1>14. tails' \in [Channels -> Seq(STRING)] /\ (cur'.kind = "event" => cur'.fragments \in Seq(Fragment))
  BY <1>1, <1>3, Zenon DEF Windowed
<1>15. Windowed'
  BY <1>8, <1>12, <1>13, <1>14, Zenon DEF Windowed
<1> QED
  BY <1>3, <1>9, <1>11, <1>15, SMTT(30)

\* The termination event says nothing on a channel.
LEMMA TerminateWindowed ==
  ASSUME Control, Audits, Windowed, SpansInspected, TerminateDrained
  PROVE  Windowed' /\ SpansInspected'
<1> DEFINE p == Piece("termination", <<>>)
<1>1. /\ got' = Append(got, p) /\ cfg' = cfg /\ cur' = cur /\ tails' = tails /\ gpc' = "close"
  BY Zenon DEF TerminateDrained, Goto, request, inspection
<1>2. p.fragments = <<>>
  BY SMT DEF Piece
<1> HIDE DEF p
<1>3. /\ IsSeq(got) /\ \A i \in DOMAIN got : \A c \in Channels :
                         Of(c, got[i].fragments) \in Seq(STRING)
  BY Zenon DEF Windowed, Audits
<1>4. \A c \in Channels : Of(c, p.fragments) = <<>> /\ Of(c, p.fragments) \in Seq(STRING)
  <2>1. \A S : <<>> \in Seq(S)
    BY SMT
  <2> QED
    BY <1>2, <2>1, NothingOn, Zenon
<1>5. \A c \in Channels : On(c, got)' = On(c, got)
  <2> TAKE c \in Channels
  <2>1. /\ On(c, got) \in Seq(STRING)
        /\ On(c, Append(got, p)) = On(c, got) \o Of(c, p.fragments)
    BY <1>3, <1>4, OnAppend, SMTT(30)
  <2>2. On(c, got) \o <<>> = On(c, got)
    BY <2>1, ConcatNothing, SMTT(30)
  <2> QED
    BY <1>1, <1>4, <2>1, <2>2, ZenonT(60)
<1>6. \A i \in DOMAIN got' : \A c \in Channels : Of(c, got'[i].fragments) \in Seq(STRING)
  <2>1. /\ DOMAIN got' = DOMAIN got \cup {Len(got) + 1}
        /\ \A i \in DOMAIN got : got'[i] = got[i]
        /\ got'[Len(got) + 1] = p
    BY <1>1, <1>3, AppendIs, SMTT(30)
  <2> QED
    BY <1>3, <1>4, <2>1, ZenonT(60)
<1>7. /\ gpc' \notin {"off", "request", "headers"} /\ gpc' \notin {"headers", "write"}
      /\ gpc' \notin {"read", "inspect"} /\ gpc' # "inspect" /\ gpc' # "write"
  BY <1>1, SMTT(30)
<1>8. ~Reading'
  BY <1>1, SMT DEF Reading
<1>9. tails' \in [Channels -> Seq(STRING)] /\ (cur'.kind = "event" => cur'.fragments \in Seq(Fragment))
  BY <1>1, Zenon DEF Windowed
<1>10. Windowed'
  BY <1>6, <1>7, <1>8, <1>9, Zenon DEF Windowed
<1> QED
  BY <1>1, <1>5, <1>10, Zenon DEF SpansInspected

\* Every step of the exchange keeps the windows in line with what was delivered.
LEMMA WindowsStep == SInv /\ WInv /\ [Next]_vars => WInv'
<1> SUFFICES ASSUME SInv, WInv, [Next]_vars PROVE WInv'
  OBVIOUS
<1>0. Control /\ Audits /\ IsSeq(got) /\ Windowed /\ SpansInspected
  BY Zenon DEF SInv, Audits, WInv
<1>1. CASE AuditRequest \/ AuditorAnswers
  <2>1. UNCHANGED <<cfg, got, cur, todo, tails, headerCh>>
    BY <1>1, Zenon DEF AuditRequest, AuditorAnswers, transport
  <2>2. /\ gpc = "off" /\ cur.kind = "event"
        /\ \/ gpc' = gpc
           \/ gpc' = "request"
        /\ hpc' \in {"select", "blocked", "asking"}
    <3>1. hpc \in {"start", "asking"}
      BY <1>1 DEF AuditRequest, AuditorAnswers
    <3>2. gpc = "off" /\ cur.kind = "event"
      <4>1. gpc = "off"
        BY <1>0, <3>1, Zenon DEF Control
      <4>2. gpc \in {"off", "request"}
        BY <4>1
      <4> QED
        BY <1>0, <4>1, <4>2, Zenon DEF Control
    <3>3. CASE AuditorAnswers
      <4>1. (hpc' = "blocked" /\ gpc' = gpc) \/ (hpc' = "select" /\ gpc' = "request")
        BY <3>3, Zenon DEF AuditorAnswers, Begin, Reject
      <4> QED
        BY <3>2, <4>1
    <3>4. CASE AuditRequest
      <4>1. \/ hpc' = "blocked" /\ gpc' = gpc
            \/ hpc' = "select" /\ gpc' = "request"
            \/ hpc' = "asking" /\ gpc' = gpc
        BY <3>4, Zenon DEF AuditRequest, Begin, Reject
      <4> QED
        BY <3>2, <4>1, SMTT(30)
    <3> QED
      BY <1>1, <3>3, <3>4, SMTT(30)
  <2>3. headerCh = <<>>
    <3>1. gpc \in {"off", "request", "headers"}
      BY <2>2, SMTT(30)
    <3> QED
      BY <1>0, <3>1, Zenon DEF Windowed
  <2>4. Windowed' /\ (SpansInspected => SpansInspected')
    BY <1>0, <2>1, <2>2, <2>3, StillWindowed, SMTT(30)
  <2> QED
    BY <1>0, <2>4, SMTT(30) DEF WInv
<1>2. CASE UpstreamAnswers
  BY <1>0, <1>2, AnswerWindowed, SMTT(30) DEF WInv
<1>3. CASE ReadEvent
  BY <1>0, <1>3, ReadWindowed, SMTT(30) DEF WInv
<1>4. CASE InspectFragment
  BY <1>0, <1>4, InspectWindowed, SMTT(30) DEF WInv
<1>5. CASE WriteDrained
  BY <1>0, <1>5, WriteWindowed, SMTT(30) DEF WInv
<1>6. CASE TerminateDrained
  BY <1>0, <1>6, TerminateWindowed, SMTT(30) DEF WInv
<1>7. CASE UpstreamStreams \/ OnHeaders
  <2>1. UNCHANGED <<cfg, hpc, got, cur, todo, tails>>
    BY <1>7, Zenon DEF UpstreamStreams, OnHeaders, transport, inspection, request
  <2>2. \/ gpc = "request" /\ gpc' = "headers" /\ headerCh' = headerCh
        \/ gpc = "headers" /\ gpc' = IF cur.kind = "plain" THEN "write" ELSE "read"
    BY <1>7, Zenon DEF UpstreamStreams, OnHeaders, transport, Goto
  <2>3. /\ cur.kind \in {"event", "plain"} /\ (gpc = "request" => cur.kind = "event")
    <3>1. gpc = "request" => gpc \in {"off", "request"}
      OBVIOUS
    <3> QED
      BY <1>0, <3>1, Zenon DEF Control
  <2>4. gpc \in {"off", "request", "headers"} => headerCh = <<>> /\ hpc # "streaming"
    BY <1>0, Zenon DEF Windowed
  <2>5. \/ gpc \in {"off", "request", "headers"} /\ gpc' \in {"request", "headers", "read"}
           /\ cur.kind = "event"
        \/ gpc = "headers" /\ gpc' = "write" /\ cur.kind = "plain"
    BY <2>2, <2>3, SMTT(30)
  <2>6. gpc' \in {"off", "request", "headers"} => headerCh' = <<>> /\ hpc' # "streaming"
    BY <2>1, <2>2, <2>4, SMTT(30)
  <2>7. Windowed' /\ (SpansInspected => SpansInspected')
    BY <1>0, <2>1, <2>5, <2>6, StillWindowed, SMTT(30)
  <2> QED
    BY <1>0, <2>7 DEF WInv
<1>8. CASE \/ UpstreamFails \/ ReadTooLarge \/ ReadEnds \/ ReadFails
           \/ WriteFails \/ WriteStalls \/ TerminateFails \/ SendError \/ Close
  <2>1. UNCHANGED <<cfg, got, cur, todo, tails>>
    BY <1>8, Zenon
      DEF UpstreamFails, ReadTooLarge, ReadEnds, ReadFails, WriteFails, WriteStalls,
         TerminateFails, SendError, Close, transport, inspection, request
  <2>2. gpc' \in {"senderr", "close", "done", "terminate", "reject"}
    BY <1>8, SMTT(30)
      DEF UpstreamFails, ReadTooLarge, ReadEnds, ReadFails, WriteFails, WriteStalls,
         TerminateFails, SendError, Close, Goto
  <2>3. ~(gpc' \in {"off", "request", "headers"})
    BY <2>2, SMTT(30)
  <2>4. Windowed' /\ (SpansInspected => SpansInspected')
    BY <1>0, <2>1, <2>2, <2>3, StillWindowed, SMTT(30)
  <2> QED
    BY <1>0, <2>4 DEF WInv
<1>9. CASE Refuse \/ ReceiveHeaders \/ HeadersTimeOut \/ Server \/ ShadowAudit \/ UNCHANGED vars
  <2>1. UNCHANGED <<cfg, got, cur, todo, tails, gpc>>
    BY <1>9, Zenon
      DEF Refuse, ReceiveHeaders, HeadersTimeOut, Server, ReaderEOF, ClientGone,
         ShadowAudit, transport, inspection, request, upstream, vars
  <2>2. \/ hpc' = hpc /\ headerCh' = headerCh
        \/ hpc' \in {"refused", "failed"} /\ headerCh' = headerCh
        \/ headerCh # <<>>
    BY <1>9, Zenon
      DEF Refuse, ReceiveHeaders, HeadersTimeOut, Server, ReaderEOF, ClientGone,
         ShadowAudit, transport, inspection, request, upstream, vars
  <2>3. gpc \in {"off", "request", "headers"} => headerCh = <<>> /\ hpc # "streaming"
    BY <1>0, Zenon DEF Windowed
  <2>4. gpc' \in {"off", "request", "headers"} => headerCh' = <<>> /\ hpc' # "streaming"
    BY <2>1, <2>2, <2>3, SMTT(30)
  <2>5. Windowed' /\ (SpansInspected => SpansInspected')
    BY <1>0, <2>1, <2>4, StillWindowed, SMTT(30)
  <2> QED
    BY <1>0, <2>5 DEF WInv
<1> QED
  BY <1>1, <1>2, <1>3, <1>4, <1>5, <1>6, <1>7, <1>8, <1>9, ZenonT(60)
    DEF Next, Exchange, Handler

\* Whatever the upstream cuts its text into, and however it mixes its channels,
\* every span of text that a client received and that fits the window and one
\* character was seen by the rules in one piece, and that piece passed
\* (inspectStream, Windows.Feed): no event boundary and no other channel hides
\* a part of it.  A plain body was seen as a whole.
THEOREM EverySpanWasInspected == Spec => []SpansInspected
<1>1. Init => SInv /\ WInv
  BY InitSInv, InitWInv
<1>2. SInv /\ WInv /\ [Next]_vars => WInv'
  BY WindowsStep
<1>3. WInv => SpansInspected
  BY DEF WInv
<1> QED
  BY <1>1, <1>2, <1>3, SInvariance, PTL DEF Spec
-----------------------------------------------------------------------------
(***************************************************************************)
(* What stops a stream, and what does not follow.                          *)
(***************************************************************************)
\* The event up to the fragment that was rejected.
Shown == Piece("event", SubSeq(cur.fragments, 1, Len(cur.fragments) - Len(todo) + 1))

Stopped ==
  /\ gpc \in {"off", "request", "headers", "read"} \/ ~cfg.enabled => todo = <<>>
  /\ cfg.enabled => \A i \in DOMAIN got :
       got[i].kind = "plain" => ~Forbidden(got[i].fragments[1].text, Default)
  /\ Terminated => gpc \in {"close", "done"}
  /\ \A i \in DOMAIN got : got[i].kind = "termination" => i = Len(got)
  /\ gpc = "terminate" /\ todo # <<>> =>
       Forbidden(On(Head(todo).channel, Append(got, Shown)), Default)

\* A step that leaves the texts.
LEMMA StillStopped ==
  ASSUME Stopped, UNCHANGED <<cfg, got, cur, todo>>,
         \/ gpc' = gpc
         \/ gpc' \in {"senderr", "reject"} /\ gpc \notin {"close", "done"}
         \/ gpc' \in {"close", "done"}
         \/ gpc \in {"off", "request", "headers"} /\ gpc' \in {"request", "headers", "read", "write"}
         \/ gpc = "read" /\ gpc' = "terminate"
  PROVE  Stopped'
<1>1. /\ gpc' \in {"off", "request", "headers", "read"} =>
           gpc \in {"off", "request", "headers", "read"}
      /\ gpc \in {"close", "done"} => gpc' \in {"close", "done"}
      /\ gpc' = "terminate" => gpc = "terminate" \/ gpc \in {"off", "request", "headers", "read"}
  BY SMT
<1>2. Terminated' <=> Terminated
  BY Zenon DEF Terminated
<1>3. Shown' = Shown
  BY Zenon DEF Shown
<1>4. gpc' \in {"off", "request", "headers", "read"} \/ ~cfg'.enabled => todo' = <<>>
  BY <1>1, Zenon DEF Stopped
<1>5. Terminated' => gpc' \in {"close", "done"}
  BY <1>1, <1>2, Zenon DEF Stopped
<1>6. gpc' = "terminate" /\ todo' # <<>> =>
        Forbidden(On(Head(todo').channel, Append(got', Shown')), Default)
  BY <1>1, <1>3, Zenon DEF Stopped
<1>7. /\ cfg'.enabled => \A i \in DOMAIN got' :
           got'[i].kind = "plain" => ~Forbidden(got'[i].fragments[1].text, Default)
      /\ \A i \in DOMAIN got' : got'[i].kind = "termination" => i = Len(got')
  BY Zenon DEF Stopped
<1> QED
  BY <1>4, <1>5, <1>6, <1>7, Zenon DEF Stopped

\* A step that reads something new.
LEMMA ReadStopped ==
  ASSUME Stopped, UNCHANGED <<cfg, got>>, gpc \notin {"close", "done"},
         gpc' \in {"senderr", "reject", "write", "inspect"}
         \/ (gpc' = "headers" /\ todo' = <<>>),
         ~cfg.enabled => todo' = <<>>
  PROVE  Stopped'
<1>1. /\ gpc' \in {"off", "request", "headers", "read"} => todo' = <<>>
      /\ gpc' # "terminate"
  BY SMT
<1>2. ~Terminated
  BY Zenon DEF Stopped
<1>3. ~Terminated'
  BY <1>2, Zenon DEF Terminated
<1>4. /\ cfg'.enabled => \A i \in DOMAIN got' :
           got'[i].kind = "plain" => ~Forbidden(got'[i].fragments[1].text, Default)
      /\ \A i \in DOMAIN got' : got'[i].kind = "termination" => i = Len(got')
  BY Zenon DEF Stopped
<1> QED
  BY <1>1, <1>3, <1>4, Zenon DEF Stopped

\* A rejection is for the text of the fragment's own channel.
LEMMA InspectStopped ==
  ASSUME Control, Audits, Windowed, Stopped, InspectFragment
  PROVE  Stopped'
<1> DEFINE f == Head(todo)
           c == f.channel
<1>1. PICK decision \in Verdict(Feed(tails, f).seen, Default) :
        /\ todo' = IF decision = "block" THEN todo ELSE Tail(todo)
        /\ gpc' = CASE decision = "block" -> "terminate"
                    [] decision # "block" /\ todo' = <<>> -> "write"
                    [] OTHER -> "inspect"
  BY Zenon DEF InspectFragment, Goto
<1>2. gpc = "inspect" /\ cfg' = cfg /\ got' = got /\ cur' = cur
  BY Zenon DEF InspectFragment, request, transport
<1>3. /\ cur.kind = "event" /\ cur.fragments \in Seq(Fragment) /\ cfg.enabled
      /\ todo = SubSeq(cur.fragments, Len(cur.fragments) - Len(todo) + 1, Len(cur.fragments))
      /\ IsSeq(todo) /\ todo # <<>> /\ Len(todo) <= Len(cur.fragments)
  <2>1. gpc \in {"read", "inspect"}
    BY <1>2, SMTT(30)
  <2> QED
    BY <1>2, <2>1, Zenon DEF Windowed, Audits
<1>4. CASE decision # "block"
  <2>1. gpc' \in {"write", "inspect"} /\ gpc \notin {"close", "done"}
    BY <1>1, <1>2, <1>4, SMTT(30)
  <2> QED
    BY <1>2, <1>3, <2>1, ReadStopped, SMTT(30)
<1>5. CASE decision = "block"
  <2>1. todo' = todo /\ gpc' = "terminate"
    BY <1>1, <1>5, SMT
  <2>2. /\ f \in Fragment /\ Prefix \in Seq(Fragment)
        /\ SubSeq(cur.fragments, 1, Len(cur.fragments) - Len(todo) + 1) = Append(Prefix, f)
    <3>1. /\ f \in Fragment
          /\ SubSeq(cur.fragments, 1, Len(cur.fragments) - Len(todo)) \in Seq(Fragment)
          /\ SubSeq(cur.fragments, 1, Len(cur.fragments) - Len(Tail(todo))) =
               Append(SubSeq(cur.fragments, 1, Len(cur.fragments) - Len(todo)), f)
      BY <1>3, PrefixGrows, ZenonT(60)
    <3>2. Len(cur.fragments) - Len(Tail(todo)) = Len(cur.fragments) - Len(todo) + 1
      <4>1. Len(Tail(todo)) = Len(todo) - 1
        BY <1>3, TailIs, Zenon
      <4>2. Len(todo) \in Nat /\ Len(cur.fragments) \in Nat
        BY <1>3, SeqIsSeq, Zenon DEF IsSeq
      <4>3. \A m, n \in Nat : n - (m - 1) = n - m + 1
        BY SMT
      <4> QED
        BY <4>1, <4>2, <4>3, Zenon
    <3> QED
      BY <3>1, <3>2, Zenon DEF Prefix
  <2> HIDE DEF f
  <2>3. c \in Channels /\ f.text \in Seq(STRING)
    BY <2>2, Zenon DEF Fragment
  <2>4. SoFar(c) = On(c, got) \o Of(c, Prefix) /\ tails[c] = Kept(SoFar(c))
    <3>1. Reading /\ gpc \in {"inspect", "write"}
      BY <1>2, <1>3, SMTT(30) DEF Reading
    <3> QED
      BY <1>3, <2>3, <3>1, ZenonT(60) DEF SoFar, Windowed
  <2>5. IsSeq(got) /\ \A i \in DOMAIN got : Of(c, got[i].fragments) \in Seq(STRING)
    BY <2>3, Zenon DEF Windowed, Audits
  <2>6. On(c, got) \in Seq(STRING) /\ Of(c, Prefix) \in Seq(STRING)
    BY <2>2, <2>5, OnIsText, OfIsText, SMTT(30)
  <2>7. SoFar(c) \in Seq(STRING)
    BY <2>4, <2>6, ConcatIs, Zenon
  <2>8. Of(c, Append(Prefix, f)) = Of(c, Prefix) \o f.text
    <3>1. IsSeq(Prefix)
      BY <2>2, SeqIsSeq
    <3>2. \A k \in DOMAIN Prefix : Prefix[k] \in Fragment
      BY <2>2, ElementIs, Zenon
    <3>3. \A k \in DOMAIN Prefix : Prefix[k].text \in Seq(STRING)
      BY <3>2, Zenon DEF Fragment
    <3>4. PICK fs, d : fs = Prefix /\ d = c
      OBVIOUS
    <3>5. Of(d, Append(fs, f)) = Of(d, fs) \o (IF f.channel = d THEN f.text ELSE <<>>)
      <4>1. IsSeq(fs) /\ \A k \in DOMAIN fs : fs[k].text \in Seq(STRING)
        BY <3>1, <3>3, <3>4, Zenon
      <4> QED
        BY <2>3, <4>1, OfAppend
    <3> QED
      BY <3>4, <3>5, Zenon
  <2>9. Shown.fragments = Append(Prefix, f)
    BY <2>2, Zenon DEF Shown, Piece
  <2>10. On(c, Append(got, Shown)) = SoFar(c) \o f.text
    <3>1. PICK a, b, d : a = On(c, got) /\ b = Of(c, Prefix) /\ d = f.text
      OBVIOUS
    <3>2. a \in Seq(STRING) /\ b \in Seq(STRING) /\ d \in Seq(STRING)
      BY <2>3, <2>6, <3>1, Zenon
    <3>3. (a \o b) \o d = a \o (b \o d)
      BY <3>2, ConcatThree, SMTT(30)
    <3>6. b \o d \in Seq(STRING)
      BY <3>2, ConcatIs
    <3>4. Of(c, Shown.fragments) = b \o d
      BY <2>8, <2>9, <3>1, Zenon
    <3>5. On(c, Append(got, Shown)) = On(c, got) \o Of(c, Shown.fragments)
      <4>1. PICK p : p = Shown
        OBVIOUS
      <4>2. Of(c, p.fragments) \in Seq(STRING)
        BY <3>4, <3>6, <4>1, Zenon
      <4>3. On(c, Append(got, p)) = On(c, got) \o Of(c, p.fragments)
        BY <2>5, <4>2, OnAppend, ZenonT(60)
      <4> QED
        BY <4>1, <4>3, Zenon
    <3> QED
      BY <2>4, <3>1, <3>3, <3>4, <3>5, ZenonT(60)
  <2>11. ~Passed(Kept(SoFar(c)) \o f.text)
    <3>1. Feed(tails, f).seen = Kept(SoFar(c)) \o f.text
      BY <2>4, Zenon DEF Feed
    <3>2. "block" \in Verdict(Kept(SoFar(c)) \o f.text, Default)
      BY <1>1, <1>5, <3>1, Zenon
    <3> QED
      BY <3>2, Zenon DEF Passed, Verdict
  <2>12. Forbidden(On(c, Append(got, Shown)), Default)
    BY <2>3, <2>7, <2>10, <2>11, FedIsForbidden
  <2>13. Shown' = Shown /\ Head(todo').channel = c
    BY <1>2, <2>1, Zenon DEF Shown, f
  <2>14. ~Terminated
    BY <1>2, SMT DEF Stopped
  <2>15. ~Terminated'
    BY <1>2, <2>14, Zenon DEF Terminated
  <2>16. /\ \A i \in DOMAIN got' :
             got'[i].kind = "plain" => ~Forbidden(got'[i].fragments[1].text, Default)
         /\ \A i \in DOMAIN got' : got'[i].kind = "termination" => i = Len(got')
    BY <1>2, <1>3, Zenon DEF Stopped
  <2>17. gpc' \notin {"off", "request", "headers", "read"}
    BY <2>1, SMT
  <2> QED
    BY <1>2, <1>3, <2>12, <2>13, <2>15, <2>16, <2>17, ZenonT(60) DEF Stopped
<1> QED
  BY <1>4, <1>5

\* A plain body that the client receives passed as a whole.
LEMMA WriteStopped ==
  ASSUME Control, Audits, Windowed, Stopped, WriteDrained
  PROVE  Stopped'
<1>1. /\ gpc = "write" /\ got' = Append(got, cur) /\ cfg' = cfg /\ cur' = cur /\ todo' = todo
      /\ gpc' = IF cur.kind = "plain" THEN "close" ELSE "read"
  BY Zenon DEF WriteDrained, Goto, request, inspection
<1>2. /\ cur.kind \in {"event", "plain"} /\ IsSeq(got)
  BY Zenon DEF Control, Audits
<1>3. /\ DOMAIN got' = DOMAIN got \cup {Len(got) + 1}
      /\ \A i \in DOMAIN got : got'[i] = got[i]
      /\ got'[Len(got) + 1] = cur
  BY <1>1, <1>2, AppendIs
<1>4. ~Terminated
  <2>1. gpc \notin {"close", "done"}
    BY <1>1
  <2> QED
    BY <2>1, Zenon DEF Stopped
<1>5. cur.kind # "termination"
  BY <1>2
<1>6. \A i \in DOMAIN got' : got'[i].kind # "termination"
  BY <1>3, <1>4, <1>5, Zenon DEF Terminated
<1>7. ~cfg.enabled => todo = <<>>
  BY Zenon DEF Stopped
<1>8. cfg.enabled /\ cur.kind = "event" => todo = <<>>
  BY <1>1, Zenon DEF Windowed
<1>9. gpc' \in {"off", "request", "headers", "read"} => cur.kind = "event"
  BY <1>1, <1>2, SMT
<1>10. gpc' \in {"off", "request", "headers", "read"} \/ ~cfg'.enabled => todo' = <<>>
  BY <1>1, <1>7, <1>8, <1>9, Zenon
<1>11. ASSUME cfg.enabled, cur.kind = "plain"
       PROVE  ~Forbidden(cur.fragments[1].text, Default)
  <2>1. gpc \in {"headers", "write"}
    BY <1>1
  <2>2. PICK text \in Seq(STRING) : /\ cur.fragments = <<[channel |-> "body", text |-> text]>>
                                    /\ Passed(text)
    BY <1>11, <2>1, Zenon DEF Windowed
  <2>3. cur.fragments[1].text = text
    BY <2>2, SMT
  <2> QED
    BY <2>2, <2>3, PassedIs, Zenon
<1>12. cfg'.enabled => \A i \in DOMAIN got' :
         got'[i].kind = "plain" => ~Forbidden(got'[i].fragments[1].text, Default)
  <2>1. cfg.enabled => \A i \in DOMAIN got :
          got[i].kind = "plain" => ~Forbidden(got[i].fragments[1].text, Default)
    BY Zenon DEF Stopped
  <2> QED
    BY <1>1, <1>3, <1>11, <2>1, Zenon
<1>13. ~Terminated'
  BY <1>6, Zenon DEF Terminated
<1>14. gpc' # "terminate"
  BY <1>1, SMT
<1> QED
  BY <1>6, <1>10, <1>12, <1>13, <1>14, Zenon DEF Stopped

\* The termination event is the first of its kind, and the last event.
LEMMA TerminateStopped ==
  ASSUME Audits, Stopped, TerminateDrained
  PROVE  Stopped'
<1> DEFINE p == Piece("termination", <<>>)
<1>1. /\ gpc = "terminate" /\ got' = Append(got, p) /\ cfg' = cfg /\ todo' = todo /\ gpc' = "close"
  BY Zenon DEF TerminateDrained, Goto, request, inspection
<1>2. p.kind = "termination" /\ p.kind # "plain"
  BY SMTT(30) DEF Piece
<1> HIDE DEF p
<1>3. /\ DOMAIN got' = DOMAIN got \cup {Len(got) + 1} /\ Len(got') = Len(got) + 1
      /\ \A i \in DOMAIN got : got'[i] = got[i]
      /\ got'[Len(got) + 1] = p
  <2>1. IsSeq(got)
    BY Zenon DEF Audits
  <2> QED
    BY <1>1, <2>1, AppendIs, SMTT(30)
<1>4. ~Terminated
  <2>1. gpc \notin {"close", "done"}
    BY <1>1
  <2> QED
    BY <2>1, Zenon DEF Stopped
<1>5. \A i \in DOMAIN got' : got'[i].kind = "termination" => i = Len(got')
  BY <1>3, <1>4, Zenon DEF Terminated
<1>6. cfg'.enabled => \A i \in DOMAIN got' :
         got'[i].kind = "plain" => ~Forbidden(got'[i].fragments[1].text, Default)
  <2>1. cfg.enabled => \A i \in DOMAIN got :
          got[i].kind = "plain" => ~Forbidden(got[i].fragments[1].text, Default)
    BY Zenon DEF Stopped
  <2> QED
    BY <1>1, <1>2, <1>3, <2>1, ZenonT(60)
<1>7. /\ gpc' \notin {"off", "request", "headers", "read"} /\ gpc' \in {"close", "done"}
      /\ gpc' # "terminate"
  BY <1>1, SMT
<1>8. ~cfg'.enabled => todo' = <<>>
  BY <1>1, Zenon DEF Stopped
<1> QED
  BY <1>5, <1>6, <1>7, <1>8, Zenon DEF Stopped

\* Every step keeps a stopped stream stopped, and for a reason.
LEMMA StoppedStep == SInv /\ WInv /\ Stopped /\ [Next]_vars => Stopped'
<1> SUFFICES ASSUME SInv, WInv, Stopped, [Next]_vars PROVE Stopped'
  OBVIOUS
<1>0. Control /\ Audits /\ Windowed
  BY Zenon DEF SInv, WInv
<1>1. CASE AuditRequest \/ AuditorAnswers
  <2>1. UNCHANGED <<cfg, got, cur, todo>>
    BY <1>1, Zenon DEF AuditRequest, AuditorAnswers, transport
  <2>2. hpc \in {"start", "asking"}
    BY <1>1 DEF AuditRequest, AuditorAnswers
  <2>3. gpc = "off"
    BY <1>0, <2>2, Zenon DEF Control
  <2>4. gpc' = gpc \/ gpc' = "request"
    BY <1>1, Zenon DEF AuditRequest, AuditorAnswers, Begin, Reject
  <2>5. gpc' = gpc \/ (gpc \in {"off", "request", "headers"}
                       /\ gpc' \in {"request", "headers", "read", "write"})
    BY <2>3, <2>4
  <2> QED
    BY <2>1, <2>5, StillStopped, SMTT(30)
<1>2. CASE UpstreamAnswers
  <2>1. UNCHANGED <<cfg, got, todo>> /\ gpc = "request"
    BY <1>2, Zenon DEF UpstreamAnswers, transport, request
  <2>2. gpc' \in {"headers", "reject"}
    BY <1>2, SMTT(30) DEF UpstreamAnswers, Goto
  <2>3. todo = <<>> /\ gpc \notin {"close", "done"}
    <3>1. gpc \in {"off", "request", "headers", "read"}
      BY <2>1
    <3> QED
      BY <2>1, <3>1, SMT DEF Stopped
  <2> QED
    BY <2>1, <2>2, <2>3, ReadStopped, SMTT(30)
<1>3. CASE ReadEvent
  <2>1. UNCHANGED <<cfg, got>> /\ gpc = "read" /\ (~cfg.enabled => todo' = <<>>)
    BY <1>3, Zenon DEF ReadEvent, transport, request
  <2>2. gpc' \in {"senderr", "write", "inspect"}
    BY <1>3, SMT DEF ReadEvent, Goto
  <2>3. gpc \notin {"close", "done"} /\ gpc' \in {"senderr", "reject", "write", "inspect"}
    BY <2>1, <2>2, SMTT(30)
  <2> QED
    BY <2>1, <2>3, ReadStopped
<1>4. CASE InspectFragment
  BY <1>0, <1>4, InspectStopped, SMTT(30)
<1>5. CASE WriteDrained
  BY <1>0, <1>5, WriteStopped, SMTT(30)
<1>6. CASE TerminateDrained
  BY <1>0, <1>6, TerminateStopped, SMTT(30)
<1>7. CASE UpstreamStreams \/ OnHeaders
  <2>1. UNCHANGED <<cfg, got, cur, todo>>
    BY <1>7, Zenon DEF UpstreamStreams, OnHeaders, transport, inspection, request
  <2>2. gpc \in {"off", "request", "headers"} /\ gpc' \in {"request", "headers", "read", "write"}
    BY <1>7, SMTT(30) DEF UpstreamStreams, OnHeaders, Goto
  <2> QED
    BY <2>1, <2>2, StillStopped
<1>8. CASE UpstreamFails \/ ReadTooLarge \/ ReadFails \/ WriteFails \/ WriteStalls
  <2>1. UNCHANGED <<cfg, got, cur, todo>>
    BY <1>8, Zenon DEF UpstreamFails, ReadTooLarge, ReadFails, WriteFails, WriteStalls,
         transport, inspection, request
  <2>2. \/ gpc' \in {"senderr", "reject"} /\ gpc \notin {"close", "done"}
        \/ gpc = "read" /\ gpc' = "terminate"
    BY <1>8, SMT DEF UpstreamFails, ReadTooLarge, ReadFails, WriteFails, WriteStalls, Goto
  <2> QED
    BY <2>1, <2>2, StillStopped, SMTT(30)
<1>9. CASE ReadEnds \/ TerminateFails \/ SendError \/ Close
  <2>1. UNCHANGED <<cfg, got, cur, todo>>
    BY <1>9, Zenon
      DEF ReadEnds, TerminateFails, SendError, Close, transport, inspection, request
  <2>2. gpc' \in {"close", "done"}
    BY <1>9, SMTT(30) DEF ReadEnds, TerminateFails, SendError, Close, Goto
  <2> QED
    BY <2>1, <2>2, StillStopped, SMTT(30)
<1>10. CASE Refuse \/ ReceiveHeaders \/ HeadersTimeOut \/ Server \/ ShadowAudit \/ UNCHANGED vars
  <2>1. UNCHANGED <<cfg, got, cur, todo, gpc>>
    BY <1>10, Zenon
      DEF Refuse, ReceiveHeaders, HeadersTimeOut, Server, ReaderEOF, ClientGone,
         ShadowAudit, transport, inspection, request, upstream, vars
  <2> QED
    BY <2>1, StillStopped
<1> QED
  BY <1>1, <1>2, <1>3, <1>4, <1>5, <1>6, <1>7, <1>8, <1>9, <1>10, ZenonT(60)
     DEF Next, Exchange, Handler

\* For any rules, any window and any way in which an upstream cuts and mixes
\* its text, a client receives no forbidden span that fits the window and one
\* character, no plain body with one of any length and nothing after the
\* termination event, and a stream that the inspection stops was stopped for
\* what its own channel said (inspectStream, Windows.Feed, stream.Copy,
\* normalize, buildAho, ahoMatches).
THEOREM ForbiddenIsStopped == Spec => []StopsTheForbidden
<1>1. Init => SInv /\ WInv /\ Stopped
  <2> SUFFICES ASSUME Init PROVE Stopped
    BY InitSInv, InitWInv
  <2>1. gpc = "off" /\ todo = <<>> /\ got = <<>>
    BY Zenon DEF Init
  <2>2. DOMAIN got = {} /\ gpc # "terminate"
    BY <2>1, SMTT(30)
  <2> QED
    BY <2>1, <2>2, Zenon DEF Stopped, Terminated
<1>2. SInv /\ WInv /\ [Next]_vars => WInv'
  BY WindowsStep
<1>3. SInv /\ WInv /\ Stopped /\ [Next]_vars => Stopped'
  BY StoppedStep
<1>4. SInv /\ WInv /\ Stopped => StopsTheForbidden
  <2> SUFFICES ASSUME SInv, WInv, Stopped PROVE StopsTheForbidden
    OBVIOUS
  <2>1. ASSUME cfg.enabled, NEW c \in Channels,
               NEW i \in DOMAIN On(c, got), NEW j \in DOMAIN On(c, got), j - i \in 0..Window
        PROVE  SubSeq(On(c, got), i, j) \notin Banned
    <3>1. Inspected(On(c, got))
      BY <2>1, Zenon DEF WInv, SpansInspected
    <3>2. IsSeq(got) /\ \A k \in DOMAIN got : Of(c, got[k].fragments) \in Seq(STRING)
      BY Zenon DEF SInv, Audits, WInv, Windowed
    <3>3. PICK text : text = On(c, got)
      OBVIOUS
    <3>4. text \in Seq(STRING)
      BY <3>2, <3>3, OnIsText, SMTT(30)
    <3>5. ~Forbidden(SubSeq(text, i, j), Default)
      BY <2>1, <3>1, <3>3, <3>4, InspectedIsClean, SMTT(30)
    <3> QED
      BY <3>3, <3>5, Zenon DEF Banned
  <2>2. /\ cfg.enabled => \A i \in DOMAIN got :
             got[i].kind = "plain" => ~Forbidden(got[i].fragments[1].text, Default)
        /\ \A i \in DOMAIN got : got[i].kind = "termination" => i = Len(got)
    BY Zenon DEF Stopped
  <2>3. gpc = "terminate" /\ todo # <<>> =>
          Forbidden(On(Head(todo).channel, Append(got, Shown)), Default)
    BY Zenon DEF Stopped
  <2> QED
    BY <2>1, <2>2, <2>3, Zenon DEF StopsTheForbidden, Shown
<1> QED
  BY <1>1, <1>2, <1>3, <1>4, SInvariance, PTL DEF Spec
=============================================================================
