--------------------------- MODULE StreamExchange ---------------------------
(***************************************************************************)
(* One proxied exchange: the handler that admits and audits the request    *)
(* and waits for the response headers, the goroutine that runs DoUpstream, *)
(* inspects the response and writes into a pipe, the server that drains    *)
(* the pipe to the client, and the worker of the shadow audits.            *)
(*                                                                         *)
(* The upstream answers with a plain body or with a stream of events.  An  *)
(* event is the sequence of its fragments, each of a channel and a text;   *)
(* "[DONE]" and JSON of an unknown shape have none.                        *)
(***************************************************************************)
EXTENDS Inspection

CONSTANTS Configs,       \* records: enabled, auditor, closed, limited
          Requests,      \* texts of requests
          Bodies,        \* texts of plain responses
          Events,        \* sequences of fragments
          ShadowSize,    \* shadowQueueSize
          MaxEvents,     \* bound: events the upstream sends
          ReaderCloses   \* the server closes the body when its client is gone

ASSUME ExchangeAssumption ==
  /\ MaxEvents \in Nat /\ ShadowSize \in Nat /\ ReaderCloses \in BOOLEAN
  /\ Configs \subseteq [enabled : BOOLEAN, auditor : BOOLEAN,
                        closed : BOOLEAN, limited : BOOLEAN]
  /\ Events \subseteq Seq([channel : Channels, text : Seq(STRING)])
  /\ Bodies \subseteq Seq(STRING)

VARIABLES cfg,       \* AuditEnabled, AuditorURL set, fail closed, RequestTimeoutMS > 0
          hpc,       \* the handler: "start", "asking" the auditor, "select", or
                     \* its answer: "refused", "blocked", "failed", "streaming"
          gpc,       \* the goroutine, "off" until it is started
          cur,       \* what it has read: an "event" or a "plain" body
          todo,      \* the fragments of cur from the next, or the rejected, one
          tails,     \* streamWindows
          headerCh,  \* channel of capacity 1: "ok", "err" or "rejected"
          pipe,      \* "open", closed by the "writer" or by the "reader"
          reader,    \* the server's side: "none", "draining", "eof" or "gone"
          cancelled, \* cancelStream was called
          reads,     \* events read from the upstream
          got,       \* what the client received
          trail,     \* the audit events of handler and goroutine
          jobs,      \* jobs in the queue of the shadow audits
          shadows    \* audit events of the shadow audits

request == <<cfg, hpc>>
inspection == <<todo, tails, trail, jobs>>
transport == <<headerCh, pipe, reader, got>>
upstream == <<gpc, cur, reads, cancelled>>
vars == <<request, inspection, transport, upstream, shadows>>

Piece(kind, fragments) == [kind |-> kind, fragments |-> fragments]

Init ==
  /\ cfg \in Configs
  /\ hpc = "start" /\ gpc = "off"
  /\ cur = Piece("event", <<>>)
  /\ todo = <<>> /\ tails = [c \in Channels |-> <<>>]
  /\ headerCh = <<>> /\ pipe = "open" /\ reader = "none"
  /\ cancelled = FALSE
  /\ reads = 0 /\ got = <<>>
  /\ trail = <<>> /\ jobs = 0 /\ shadows = 0
-----------------------------------------------------------------------------
\* A job that finds the queue full is dropped.
SubmitShadow == jobs' = IF jobs < ShadowSize THEN jobs + 1 ELSE jobs

\* emit, and submitShadow when the text was allowed.
Emit(direction, decision) ==
  /\ trail' = Append(trail, [direction |-> direction, decision |-> decision])
  /\ IF cfg.auditor /\ decision = "allow" THEN SubmitShadow ELSE UNCHANGED jobs

\* The worker takes a job, asks the shadow auditor and emits its answer, or its
\* error, as allowed.
ShadowAudit ==
  /\ jobs > 0
  /\ jobs' = jobs - 1 /\ shadows' = shadows + 1
  /\ UNCHANGED <<request, todo, tails, trail, transport, upstream>>

\* No POST, an address that is throttled, no identity, no upstream, a rate
\* limit, a body that is too large or cannot be decoded: nothing is audited.
Refuse ==
  /\ hpc = "start"
  /\ hpc' = "refused"
  /\ UNCHANGED <<cfg, inspection, transport, upstream, shadows>>

Begin == hpc' = "select" /\ gpc' = "request"
Reject == hpc' = "blocked" /\ UNCHANGED gpc

\* The rules decide on the request; a monitored one goes to the model auditor.
AuditRequest ==
  /\ hpc = "start"
  /\ \E text \in Requests : \E decision \in Verdict(text, Default) :
       CASE ~cfg.enabled -> Begin /\ UNCHANGED <<trail, jobs>>
         [] cfg.enabled /\ decision = "block" -> Emit("request", decision) /\ Reject
         [] cfg.enabled /\ decision = "monitor" /\ cfg.auditor ->
              hpc' = "asking" /\ UNCHANGED <<gpc, trail, jobs>>
         [] OTHER -> Emit("request", decision) /\ Begin
  /\ UNCHANGED <<cfg, todo, tails, transport, cur, reads, cancelled, shadows>>

\* The auditor accepts or denies, by its verdict or its score, or it fails.
AuditorAnswers ==
  /\ hpc = "asking"
  /\ \E answer \in {"accept", "deny", "error"} :
       IF answer = "deny" \/ (answer = "error" /\ cfg.closed)
       THEN Emit("request", "block") /\ Reject
       ELSE Emit("request", "monitor") /\ Begin
  /\ UNCHANGED <<cfg, todo, tails, transport, cur, reads, cancelled, shadows>>
-----------------------------------------------------------------------------
Goto(l) == gpc' = l

\* http.Client.Do fails: refused, timed out, or cancelled; or the answer cannot
\* be read or is too large.
UpstreamFails ==
  /\ gpc = "request"
  /\ Goto("senderr")
  /\ UNCHANGED <<request, inspection, transport, cur, reads, cancelled, shadows>>

\* An event stream: its headers are announced before it is read.
UpstreamStreams ==
  /\ gpc = "request" /\ ~cancelled
  /\ Goto("headers")
  /\ UNCHANGED <<request, inspection, transport, cur, reads, cancelled, shadows>>

\* A plain body: read completely and inspected before the headers.
UpstreamAnswers ==
  /\ gpc = "request" /\ ~cancelled
  /\ \E text \in Bodies : \E decision \in Verdict(text, Default) :
       /\ cur' = Piece("plain", <<[channel |-> "body", text |-> text]>>)
       /\ IF ~cfg.enabled THEN Goto("headers") /\ UNCHANGED <<trail, jobs>>
          ELSE /\ Emit("response", decision)
               /\ Goto(IF decision = "block" THEN "reject" ELSE "headers")
  /\ UNCHANGED <<request, todo, tails, transport, reads, cancelled, shadows>>

OnHeaders ==
  /\ gpc = "headers" /\ headerCh = <<>>
  /\ headerCh' = <<"ok">>
  /\ Goto(IF cur.kind = "plain" THEN "write" ELSE "read")
  /\ UNCHANGED <<request, inspection, pipe, reader, got, cur, reads, cancelled, shadows>>

\* stream.Copy: the next complete event.
ReadEvent ==
  /\ gpc = "read" /\ reads < MaxEvents
  /\ reads' = reads + 1
  /\ \E event \in Events :
       /\ cur' = Piece("event", event)
       /\ todo' = IF cfg.enabled THEN event ELSE <<>>
  /\ Goto(IF cancelled THEN "senderr" ELSE IF todo' = <<>> THEN "write" ELSE "inspect")
  /\ UNCHANGED <<request, tails, trail, jobs, transport, cancelled, shadows>>

\* inspect: the next fragment through the window of its channel.  A rejection
\* cancels the context and ends the stream.
InspectFragment ==
  /\ gpc = "inspect"
  /\ \E fed \in {Feed(tails, Head(todo))} : \E decision \in Verdict(fed.seen, Default) :
        /\ Emit("response", decision)
        /\ tails' = fed.tails
        /\ todo' = IF decision = "block" THEN todo ELSE Tail(todo)
        /\ Goto(CASE decision = "block" -> "terminate"
                  [] decision # "block" /\ todo' = <<>> -> "write"
                  [] OTHER -> "inspect")
        /\ cancelled' = (cancelled \/ decision = "block")
  /\ UNCHANGED <<request, transport, cur, reads, shadows>>

\* Mutant of ReadTooLarge: the termination leaves no audit event.
ReadTooLargeSilent ==
  /\ gpc = "read"
  /\ Goto("terminate")
  /\ UNCHANGED <<request, inspection, transport, cur, reads, cancelled, shadows>>

\* ErrEventTooLarge ends the stream with a termination event.
ReadTooLarge ==
  /\ gpc = "read"
  /\ IF cfg.enabled THEN Emit("response", "block") ELSE UNCHANGED <<trail, jobs>>
  /\ Goto("terminate")
  /\ UNCHANGED <<request, todo, tails, transport, cur, reads, cancelled, shadows>>

ReadEnds ==
  /\ gpc = "read"
  /\ Goto("close")
  /\ UNCHANGED <<request, inspection, transport, cur, reads, cancelled, shadows>>

ReadFails ==
  /\ gpc = "read"
  /\ Goto("senderr")
  /\ UNCHANGED <<request, inspection, transport, cur, reads, cancelled, shadows>>

\* The pipe hands a write over to the server, which sends it to the client.
WriteDrained ==
  /\ gpc = "write" /\ pipe = "open" /\ reader = "draining"
  /\ got' = Append(got, cur)
  /\ Goto(IF cur.kind = "plain" THEN "close" ELSE "read")
  /\ UNCHANGED <<request, inspection, headerCh, pipe, reader, cur, reads, cancelled, shadows>>

\* Mutant of WriteFails: a failed write is tried again.
WriteFailsRetried ==
  /\ gpc = "write" /\ pipe # "open"
  /\ Goto("write")
  /\ UNCHANGED <<request, inspection, transport, cur, reads, cancelled, shadows>>

WriteFails ==
  /\ gpc = "write" /\ pipe # "open"
  /\ Goto("senderr")
  /\ UNCHANGED <<request, inspection, transport, cur, reads, cancelled, shadows>>

\* stallWriter: nobody took the write for clientStallTimeout, for want of a
\* reader or because the client is slow.
WriteStalls ==
  /\ gpc = "write" /\ pipe = "open"
  /\ cancelled' = TRUE
  /\ pipe' = "writer"
  /\ Goto("senderr")
  /\ UNCHANGED <<request, inspection, headerCh, reader, got, cur, reads, shadows>>

\* SecurityTermination is written to the pipe itself, without the limit.
TerminateDrained ==
  /\ gpc = "terminate" /\ pipe = "open" /\ reader = "draining"
  /\ got' = Append(got, Piece("termination", <<>>))
  /\ Goto("close")
  /\ UNCHANGED <<request, inspection, headerCh, pipe, reader, cur, reads, cancelled, shadows>>

TerminateFails ==
  /\ gpc = "terminate" /\ pipe # "open"
  /\ Goto("close")
  /\ UNCHANGED <<request, inspection, transport, cur, reads, cancelled, shadows>>

\* Every other error goes to the handler: a send on the channel.
SendError ==
  /\ gpc \in {"senderr", "reject"} /\ headerCh = <<>>
  /\ headerCh' = <<IF gpc = "reject" THEN "rejected" ELSE "err">>
  /\ Goto("close")
  /\ UNCHANGED <<request, inspection, pipe, reader, got, cur, reads, cancelled, shadows>>

\* The deferred calls: close the pipe, cancel the context.
Close ==
  /\ gpc = "close"
  /\ pipe' = IF pipe = "open" THEN "writer" ELSE pipe
  /\ cancelled' = TRUE
  /\ Goto("done")
  /\ UNCHANGED <<request, inspection, headerCh, reader, got, cur, reads, shadows>>
-----------------------------------------------------------------------------
Answers == [ok |-> "streaming", err |-> "failed", rejected |-> "blocked"]

\* Mutant of ReceiveHeaders: the body stream is set before the error is seen.
ReceiveAttachesFirst ==
  /\ hpc = "select" /\ headerCh # <<>>
  /\ headerCh' = <<>>
  /\ hpc' = Answers[headerCh[1]]
  /\ reader' = "draining"
  /\ cancelled' = (cancelled \/ hpc' # "streaming")
  /\ UNCHANGED <<cfg, inspection, pipe, got, gpc, cur, reads, shadows>>

\* The handler's select, first case: the pipe becomes the body, or the answer
\* is 403 or 502.
ReceiveHeaders ==
  /\ hpc = "select" /\ headerCh # <<>>
  /\ headerCh' = <<>>
  /\ hpc' = Answers[headerCh[1]]
  /\ reader' = IF hpc' = "streaming" THEN "draining" ELSE reader
  /\ cancelled' = (cancelled \/ hpc' # "streaming")
  /\ UNCHANGED <<cfg, inspection, pipe, got, gpc, cur, reads, shadows>>

\* The handler's select, second case: the answer is 504 and nobody will read
\* the pipe.
HeadersTimeOut ==
  /\ cfg.limited /\ hpc = "select"
  /\ hpc' = "failed" /\ cancelled' = TRUE
  /\ UNCHANGED <<cfg, inspection, transport, gpc, cur, reads, shadows>>

ReaderEOF ==
  /\ reader = "draining" /\ pipe = "writer"
  /\ reader' = "eof"
  /\ UNCHANGED <<request, inspection, headerCh, pipe, got, upstream, shadows>>

ClientGone ==
  /\ reader = "draining"
  /\ reader' = "gone"
  /\ pipe' = IF ReaderCloses /\ pipe = "open" THEN "reader" ELSE pipe
  /\ UNCHANGED <<request, inspection, headerCh, got, upstream, shadows>>

Exchange ==
  \/ UpstreamFails \/ UpstreamStreams \/ UpstreamAnswers \/ OnHeaders
  \/ ReadEvent \/ InspectFragment \/ ReadTooLarge \/ ReadEnds \/ ReadFails
  \/ WriteDrained \/ WriteFails \/ WriteStalls
  \/ TerminateDrained \/ TerminateFails \/ SendError \/ Close

Handler == Refuse \/ AuditRequest \/ AuditorAnswers \/ ReceiveHeaders \/ HeadersTimeOut
Server == ReaderEOF \/ ClientGone

Next == Exchange \/ Handler \/ Server \/ ShadowAudit

Spec == Init /\ [][Next]_vars

\* The goroutines run, the auditor's call returns, the upstream's stream ends,
\* timers fire.
Fairness == WF_vars(Exchange) /\ WF_vars(Handler) /\ WF_vars(ReaderEOF)

FairSpec == Spec /\ Fairness
-----------------------------------------------------------------------------
\* The text of a channel in some fragments, and in some pieces.
Of(channel, fragments) ==
  FlattenSeq([k \in DOMAIN fragments |->
                IF fragments[k].channel = channel THEN fragments[k].text ELSE <<>>])
On(channel, pieces) ==
  FlattenSeq([i \in DOMAIN pieces |-> Of(channel, pieces[i].fragments)])

\* "a rejected event is never exposed" (stream.Copy): however the upstream cuts
\* its text into events and mixes its channels, what the client receives on a
\* channel has no forbidden span that fits the window and one character, a
\* plain body has none of any length, and nothing follows the event that tells
\* the client why its stream ended.  A stream is stopped for text of one of its
\* channels, never for "an unrelated choice or tool call" beside it
\* (stream/sse.go:33).
StopsTheForbidden ==
  LET seen == Piece("event", SubSeq(cur.fragments, 1, Len(cur.fragments) - Len(todo) + 1))
  IN /\ cfg.enabled =>
          /\ \A c \in Channels : LET text == On(c, got)
               IN \A i, j \in DOMAIN text : j - i \in 0..Window => SubSeq(text, i, j) \notin Banned
          /\ \A i \in DOMAIN got : got[i].kind = "plain" =>
               ~Forbidden(got[i].fragments[1].text, Default)
     /\ \A i \in DOMAIN got : got[i].kind = "termination" => i = Len(got)
     /\ gpc = "terminate" /\ todo # <<>> =>
          Forbidden(On(Head(todo).channel, Append(got, seen)), Default)

Decisions(direction) ==
  {i \in DOMAIN trail : trail[i].direction = direction /\ trail[i].decision # "block"}

\* The fragments that the client received, each by its piece and its place.
Delivered == UNION {{i} \X DOMAIN got[i].fragments : i \in DOMAIN got}

\* The audit trail agrees with what happened: the upstream is called only after
\* an event that lets the request pass, each fragment that the client received
\* has one of its own, a rejection is the last event, it and nothing else is
\* what a 403 or a termination stands for, and a shadow audit is of a text that
\* was allowed.
TrailAgrees ==
  LET blocks == {i \in DOMAIN trail : trail[i].decision = "block"}
      terminated == \E i \in DOMAIN got : got[i].kind = "termination"
  IN /\ cfg.enabled /\ gpc # "off" => 1 \in Decisions("request")
     /\ cfg.enabled => Cardinality(Delivered) <= Cardinality(Decisions("response"))
     /\ blocks \subseteq {Len(trail)}
     /\ hpc = "blocked" \/ (cfg.enabled /\ terminated) => blocks # {}
     /\ blocks # {} => gpc \in {"off", "reject", "terminate", "close", "done"}
     /\ shadows + jobs <= Cardinality({i \in DOMAIN trail : trail[i].decision = "allow"})

\* The handler has one answer: once it failed or blocked the exchange no byte
\* of the upstream's response reaches the client.
FailedMeansNoBody ==
  hpc \in {"refused", "blocked", "failed"} => got = <<>> /\ reader = "none"

\* "without this bound an abandoned stream would pin the goroutine and the
\* upstream connection forever" (handler.go:476): the handler answers whatever
\* the auditor and the upstream do, the client of a stream sees its end unless
\* it went away itself, and the goroutine ends, unless its headers came after
\* the handler had timed out, where nobody takes them from the channel and the
\* send of a later error blocks.
ExchangeReturns ==
  /\ <>(hpc \notin {"start", "asking", "select"})
  /\ reader = "draining" ~> reader \in {"eof", "gone"}
  /\ gpc # "off" ~> (gpc = "done" \/ (hpc = "failed" /\ headerCh = <<"ok">>))
=============================================================================
