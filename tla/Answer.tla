------------------------------- MODULE Answer -------------------------------
(***************************************************************************)
(* One request from ranking to its last byte: the gateway's handlers       *)
(* (services/gateway/handler.go), the stream they read from (a worker over *)
(* gRPC, worker/grpc/server.go, or a provider over a channel,              *)
(* services/gateway/provider_dial.go) and the goroutine that fills it with *)
(* a backend's tokens (TokenSource).  The client may leave and the request *)
(* may run out of time at any point.                                       *)
(*                                                                         *)
(* Which workers are tried, and in what order, is the subject of Gateway;  *)
(* here an attempt is a number and a retry is the next one.                *)
(***************************************************************************)
EXTENDS TokenSource, FiniteSets

CONSTANTS
    MaxAttempts,   \* workers in the ranked list
    MaxLines,      \* bound on the lines of one response before its end
    Cap            \* room in the stream: 16 in the channel, the gRPC window

ASSUME AnswerAssumption == MaxAttempts \in Nat \ {0} /\ MaxLines \in Nat /\ Cap \in Nat \ {0}

VARIABLES
    req,        \* the request: route, stream, usage
    adapter,    \* the backend behind the current attempt
    attempt,
    src,        \* the producer: at, emit, ret, lines read, texts read
    ch,         \* chunks in the stream
    chErr,      \* chunkStream.err, or the status in the gRPC trailer
    closed,
    con,        \* where the handler is
    held,       \* the first chunk, received and not yet relayed
    text,       \* collect's builder: the texts of the current attempt
    fin,        \* a done chunk was seen
    out,        \* what the client has been sent, in order
    status,     \* the HTTP status written, 0 before
    log,        \* the handler's statusCode and auditErr
    audit,      \* the audit line, NoAudit before it is logged
    gone,       \* the client has left
    expired     \* the request's deadline has passed

vars == <<req, adapter, attempt, src, ch, chErr, closed, con, held, text, fin, out,
          status, log, audit, gone, expired>>
streamVars == <<src, ch, chErr, closed>>
clientVars == <<held, text, fin, out, status, log, audit>>

NoAudit == [status |-> 0, err |-> FALSE]
Cancelled == gone \/ expired \/ con = "returned"
Channel == adapter = "openai"

\* What a client is sent: a text of an attempt, or a marker.
Event(kind) == [kind |-> kind, attempt |-> 0, n |-> 0]
TextEvent(c) == [kind |-> "text", attempt |-> attempt, n |-> c.text]

Quiet == [at |-> "quiet", emit |-> "none", ret |-> "go", lines |-> 0, texts |-> 0]

Init ==
    /\ req \in [route : {"chat", "completions"}, stream : BOOLEAN, usage : BOOLEAN]
    /\ adapter \in Adapters
    /\ attempt = 1 /\ src = Quiet /\ ch = <<>> /\ chErr = "none" /\ closed = FALSE
    /\ con = "begin" /\ held = <<>> /\ text = <<>> /\ fin = FALSE /\ out = <<>> /\ status = 0
    /\ log = [status |-> 200, err |-> FALSE] /\ audit = NoAudit
    /\ gone = FALSE /\ expired = FALSE

-----------------------------------------------------------------------------
(* The producer: backend.Generate in its goroutine, or in the worker. *)

Goes(to) == src' = [src EXCEPT !.at = to]
Ends(ret) == src' = [src EXCEPT !.at = "end", !.ret = ret]

\* A provider's goroutine shares the request's context; a worker learns that
\* it is done later, over the network.
MayRead == Channel => ~Cancelled

\* The POST and the checks on its status.
Post ==
    /\ src.at = "post"
    /\ MayRead
    /\ \E o \in PostOutcomes : IF o = "ok" THEN Goes("scan") ELSE Ends(o)
    /\ UNCHANGED <<ch, chErr, closed>>

Takes(line) ==
    LET o == OnLine(adapter, line)
        emitted == [src EXCEPT !.lines = @ + 1, !.emit = o.emit, !.ret = o.ret,
                               !.texts = IF line \in Content THEN @ + 1 ELSE @]
    IN  \/ src' = [emitted EXCEPT !.at = IF o.emit # "none" THEN "send"
                                         ELSE IF o.ret = "go" THEN "scan" ELSE "end"]
        \/ ModelMissing(adapter, line) /\ Ends("notfound")

\* One turn of the scanner loop.
Scan ==
    /\ src.at = "scan"
    /\ MayRead
    /\ \E line \in Lines(adapter) :
           /\ src.lines < MaxLines \/ line \in Endings
           /\ Takes(line)
    /\ UNCHANGED <<ch, chErr, closed>>

\* A cancelled context ends the POST, the read and the loop.  The provider
\* client does not see that the read failed and still offers its done chunk.
SeesCancel ==
    /\ src.at \in {"post", "scan"}
    /\ Cancelled
    /\ \/ Ends("cancelled")
       \/ src.at = "scan" /\ Channel
            /\ src' = [src EXCEPT !.at = "send", !.emit = "done", !.ret = "nil"]
    /\ UNCHANGED <<ch, chErr, closed>>

Chunk == [text |-> IF src.emit \in {"text", "textdone"} THEN src.texts ELSE 0,
          done |-> src.emit \in {"done", "textdone"}]

\* The sink hands the chunk to the stream; a full stream blocks it until
\* there is room or the context is done.
SendRoom ==
    /\ src.at = "send"
    /\ Len(ch) < Cap
    /\ ch' = Append(ch, Chunk)
    /\ Goes(IF src.ret = "go" THEN "scan" ELSE "end")
    /\ UNCHANGED <<chErr, closed>>

\* Defect: a plain send, without the select on the context.
SendBlocks == FALSE /\ UNCHANGED streamVars

SendCancelled ==
    /\ src.at = "send"
    /\ Cancelled
    /\ Ends("cancelled")
    /\ UNCHANGED <<ch, chErr, closed>>

\* Defect: the goroutine leaves without storing its error.
ReportNothing ==
    /\ src.at = "end"
    /\ Channel
    /\ Goes("close")
    /\ UNCHANGED <<ch, chErr, closed>>

\* provider_dial.go: stream.err is set, then the deferred close runs.
Report ==
    /\ src.at = "end"
    /\ Channel
    /\ chErr' = src.ret
    /\ Goes("close")
    /\ UNCHANGED <<ch, closed>>

Close ==
    /\ src.at = "close"
    /\ closed' = TRUE
    /\ Goes("ended")
    /\ UNCHANGED <<ch, chErr>>

\* worker/grpc: mapError's status ends the gRPC stream.
Trailer ==
    /\ src.at = "end"
    /\ ~Channel
    /\ chErr' = src.ret /\ closed' = TRUE
    /\ Goes("ended")
    /\ UNCHANGED ch

\* The worker or the connection dies: what is under way is lost.
WorkerLost ==
    /\ ~Channel /\ ~closed
    /\ src.at \in {"post", "scan", "send", "end"}
    /\ \E n \in 0..Len(ch) : ch' = SubSeq(ch, 1, n)
    /\ chErr' = "unavailable" /\ closed' = TRUE
    /\ src' = [src EXCEPT !.at = "ended", !.ret = "unavailable"]

Producer ==
    /\ \/ Post \/ Scan \/ SeesCancel \/ SendRoom \/ SendCancelled
       \/ Report \/ Close \/ Trailer \/ WorkerLost
    /\ UNCHANGED <<req, adapter, attempt, con, clientVars, gone, expired>>

-----------------------------------------------------------------------------
(* The handler. *)

Env == <<req, gone, expired>>

\* The handler returns: chatCompletions' deferred function logs its line.
Return(l) ==
    /\ con' = "returned"
    /\ log' = l
    /\ audit' = IF req.route = "chat" THEN l ELSE NoAudit

BadRequest ==
    /\ con = "begin"
    /\ con' = "returned" /\ status' = 400
    /\ UNCHANGED <<Env, adapter, attempt, streamVars, held, text, fin, out, log, audit>>

\* rankWorkers fails.  The status answered is in a variable of the error
\* branch that hides the handler's statusCode, so 200 is what is logged.
RankFails ==
    /\ con = "begin"
    /\ status' \in {503, 404, 429}
    /\ Return([log EXCEPT !.err = TRUE])
    /\ UNCHANGED <<Env, adapter, attempt, streamVars, held, text, fin, out>>

\* No ranked worker admits the request.
Saturated ==
    /\ con = "begin"
    /\ status' = 429
    /\ Return([status |-> 429, err |-> TRUE])
    /\ UNCHANGED <<Env, adapter, attempt, streamVars, held, text, fin, out>>

\* Defect: what the failed attempt collected is not dropped.
OpenKeepsText ==
    /\ con \in {"begin", "open"}
    /\ con' = IF req.stream THEN "first" ELSE "collect"
    /\ src' = [Quiet EXCEPT !.at = "post"]
    /\ ch' = <<>> /\ chErr' = "none" /\ closed' = FALSE
    /\ UNCHANGED <<Env, adapter, attempt, clientVars>>

\* openGenerate on the current attempt: a goroutine or a gRPC call starts.
Open ==
    /\ con \in {"begin", "open"}
    /\ con' = IF req.stream THEN "first" ELSE "collect"
    /\ src' = [Quiet EXCEPT !.at = "post"]
    /\ ch' = <<>> /\ chErr' = "none" /\ closed' = FALSE
    /\ text' = <<>>
    /\ UNCHANGED <<Env, adapter, attempt, held, fin, out, status, log, audit>>

\* An error of a provider has no gRPC status, whatever it is: it may be retried
\* on another worker, and it is answered with 500.
Retryable(e) == Channel \/ e \in {"internal", "unavailable"}

HttpStatus(e) == CASE Channel \/ e = "internal" -> 500
                   [] e = "unavailable" -> 503
                   [] e = "notfound" -> 404
                   [] e = "cancelled" -> IF expired THEN 504 ELSE 408

\* Defect: the status answered is not noted for the audit line.
AttemptFailedUnlogged(e) ==
    /\ status' = HttpStatus(e)
    /\ Return([log EXCEPT !.err = TRUE])
    /\ UNCHANGED <<Env, attempt, adapter, streamVars, held, text, fin, out>>

\* An attempt failed before anything was written: the next worker if there
\* is one and breaker and budget (Gateway) let it be tried, or the error is
\* answered.
AttemptFailed(e) ==
    /\ \/ /\ Retryable(e) /\ attempt < MaxAttempts
          /\ attempt' = attempt + 1 /\ con' = "open"
          /\ adapter' \in Adapters
          /\ UNCHANGED <<status, log, audit>>
       \/ /\ status' = HttpStatus(e)
          /\ Return([status |-> HttpStatus(e), err |-> TRUE])
          /\ UNCHANGED <<attempt, adapter>>
    /\ UNCHANGED <<Env, streamVars, held, text, fin, out>>

\* openGenerate fails: the provider is not in the registry, the dial failed.
OpenFails ==
    /\ con \in {"begin", "open"}
    /\ AttemptFailed("unavailable")

\* What Recv returns: the next chunk, or once the stream is closed and
\* drained its end.  Before that a gRPC stream fails when the context is done.
RecvChunk == ch # <<>>
Drained == ch = <<>> /\ closed
RecvError == IF Drained THEN (IF chErr \in {"none", "nil"} THEN "none" ELSE chErr)
             ELSE IF ~Channel /\ Cancelled THEN "cancelled" ELSE "none"
RecvEOF == Drained /\ chErr \in {"none", "nil"}

Takes1 == ch' = Tail(ch) /\ UNCHANGED <<src, chErr, closed>>

\* collect: every chunk is appended; an error drops the attempt's text.
Collect ==
    /\ con = "collect"
    /\ \/ /\ RecvChunk /\ Takes1
          /\ text' = IF Head(ch).text = 0 THEN text ELSE Append(text, TextEvent(Head(ch)))
          /\ fin' = (fin \/ Head(ch).done)
          /\ UNCHANGED <<Env, adapter, attempt, con, held, out, status, log, audit>>
       \/ RecvError # "none" /\ AttemptFailed(RecvError)
       \/ /\ RecvEOF
          /\ status' = 200 /\ out' = Append(text, Event("answer"))
          /\ Return(log)
          /\ UNCHANGED <<Env, adapter, attempt, streamVars, held, text, fin>>

\* streamFirstToken: until the first chunk arrives nothing is written.
First ==
    /\ con = "first"
    /\ \/ /\ RecvChunk /\ Takes1
          /\ held' = <<Head(ch)>> /\ con' = "role"
          /\ UNCHANGED <<Env, adapter, attempt, text, fin, out, status, log, audit>>
       \/ /\ RecvEOF
          /\ con' = "role"
          /\ UNCHANGED <<Env, adapter, attempt, streamVars, clientVars>>
       \/ RecvError # "none" /\ AttemptFailed(RecvError)

\* A write to the client: it may fail once the client has left, and then the
\* handler returns the error with the stream already written.
Writes(events, to) ==
    \/ /\ out' = out \o events /\ con' = to
       /\ UNCHANGED <<log, audit>>
    \/ /\ gone
       /\ out' = out
       /\ Return([log EXCEPT !.err = TRUE])

\* The SSE headers and, for chat, the role chunk.
Role ==
    /\ con = "role"
    /\ status' = 200
    /\ Writes(IF req.route = "chat" THEN <<Event("role")>> ELSE <<>>, "relay")
    /\ UNCHANGED <<Env, adapter, attempt, streamVars, held, text, fin>>

\* handle: a text is written at once, a done chunk is remembered.
Handle(c) ==
    /\ fin' = (fin \/ c.done)
    /\ IF c.text = 0 THEN UNCHANGED <<out, con, log, audit>>
       ELSE Writes(<<TextEvent(c)>>, "relay")
    /\ UNCHANGED <<Env, adapter, attempt, text, status>>

\* The first chunk, and then the receive loop.
Relay ==
    /\ con = "relay"
    /\ \/ held # <<>> /\ held' = <<>> /\ Handle(held[1]) /\ UNCHANGED streamVars
       \/ held = <<>> /\ RecvChunk /\ Takes1 /\ Handle(Head(ch)) /\ UNCHANGED held

\* Defect: after the error event the handler goes on to the ending.
RelayFailsGoesOn ==
    /\ con = "relay"
    /\ held = <<>> /\ RecvError # "none"
    /\ out' = Append(out, Event("error")) /\ con' = "usage"
    /\ UNCHANGED <<Env, adapter, attempt, streamVars, held, text, fin, status, log, audit>>

\* An error in mid-stream is written as an event and not returned.
RelayFails ==
    /\ con = "relay"
    /\ held = <<>> /\ RecvError # "none"
    /\ out' \in {Append(out, Event("error"))} \cup (IF gone THEN {out} ELSE {})
    /\ Return(log)
    /\ UNCHANGED <<Env, adapter, attempt, streamVars, held, text, fin, status>>

\* The stream ended: the stop chunk, usage if it was asked for and known, and
\* the [DONE] marker.
Finish ==
    /\ \/ con = "relay" /\ held = <<>> /\ RecvEOF /\ Writes(<<Event("stop")>>, "usage")
       \/ con = "usage" /\ Writes(IF req.usage /\ fin THEN <<Event("usage")>> ELSE <<>>, "done")
       \/ /\ con = "done"
          /\ \/ out' = Append(out, Event("[DONE]")) /\ Return(log)
             \/ gone /\ out' = out /\ Return([log EXCEPT !.err = TRUE])
    /\ UNCHANGED <<Env, adapter, attempt, streamVars, held, text, fin, status>>

\* streamChatFailover and streamTextFailover: they differ in the role chunk.
streamFailover == First \/ Role \/ Relay \/ RelayFails \/ Finish

\* chatCompletions and completions: they differ in the audit line.
Handler ==
    \/ BadRequest \/ RankFails \/ Saturated \/ Open \/ OpenFails
    \/ Collect \/ streamFailover

-----------------------------------------------------------------------------
Others == <<req, adapter, attempt, streamVars, con, clientVars>>

Disconnect == ~gone /\ con # "returned" /\ gone' = TRUE /\ UNCHANGED <<Others, expired>>
Expire == ~expired /\ ~gone /\ con # "returned" /\ expired' = TRUE /\ UNCHANGED <<Others, gone>>

Next == Producer \/ Handler \/ Disconnect \/ Expire

Spec == Init /\ [][Next]_vars

\* The backend owes no answer: Post and Scan are not fair.  Everything the
\* two goroutines do by themselves is, and the middleware's deadline passes.
Fairness ==
    /\ WF_vars(Expire)
    /\ WF_vars((SeesCancel \/ SendRoom \/ SendCancelled \/ Report \/ Close \/ Trailer)
                 /\ UNCHANGED <<req, adapter, attempt, con, clientVars, gone, expired>>)
    /\ WF_vars(Handler)

LiveSpec == Spec /\ Fairness

-----------------------------------------------------------------------------
\* The numbers of the texts in a list of events, 0 for a marker.
Numbers(events) ==
    [i \in DOMAIN events |-> IF events[i].kind = "text" THEN events[i].n ELSE 0]

\* The numbers in f, where 0 is none, begin after a and go up one by one.
Consecutive(f, a) ==
    \A i \in DOMAIN f : f[i] # 0 =>
        /\ f[i] > a
        /\ \A j \in 1..(i-1) : f[j] < f[i]
        /\ \A v \in (a+1)..(f[i]-1) : \E j \in 1..(i-1) : f[j] = v

\* They reach b and go no further.
Reaches(f, a, b) ==
    /\ \A i \in DOMAIN f : f[i] <= b
    /\ \A v \in (a+1)..b : \E i \in DOMAIN f : f[i] = v

\* The texts the client has are the first ones of a single attempt, in order
\* and without a gap, whatever failed before (dispatch.go, streamFirstToken
\* and collectWithFailover).
TextsAreAPrefix ==
    /\ Consecutive(Numbers(out), 0)
    /\ \A i \in 1..Len(out) : out[i].kind = "text" => out[i].attempt = attempt /\ out[i].n > 0

\* A client told that the answer is complete ([DONE], or the JSON body) has
\* every text the backend's Generate read, and Generate returned no error
\* (provider_dial.go, the order of stream.err and close; handler.go, collect).
DoneMeansAll ==
    out # <<>> /\ out[Len(out)].kind \in {"[DONE]", "answer"} =>
        Reaches(Numbers(out), 0, src.texts) /\ src.ret = "nil"

\* [DONE] or an error event is the last thing written, [DONE] only follows
\* the stop chunk, and usage stands between them (handler.go,
\* streamChatFailover and streamTextFailover).
EndingInOrder ==
    \A i \in 1..Len(out) :
        /\ out[i].kind \in {"[DONE]", "error", "answer"} => i = Len(out)
        /\ out[i].kind = "stop" => i = Len(out) \/ out[i+1].kind \in {"usage", "[DONE]"}
        /\ out[i].kind = "[DONE]" => i > 1 /\ out[i-1].kind \in {"stop", "usage"}

\* The audit line has the status that was answered, unless ranking failed
\* (handler.go, statusCode in chatCompletions).
AuditHasStatus ==
    audit # NoAudit /\ audit.status # status => audit.status = 200 /\ attempt = 1 /\ src = Quiet

\* Whatever the backend does, the handler returns and the producer ends
\* (provider_dial.go, the select in the sink; the middleware's deadline).
BothEnd == <>(con = "returned" /\ src.at \in {"quiet", "ended"})

\* docs/lab.md: audit lines carry "error": a request whose client was sent an
\* error while it was there has one in its audit line (handler.go,
\* streamChatFailover).
AuditTellsError ==
    /\ audit # NoAudit /\ ~gone
    /\ status >= 400 \/ \E i \in 1..Len(out) : out[i].kind = "error"
    => audit.err
=============================================================================
