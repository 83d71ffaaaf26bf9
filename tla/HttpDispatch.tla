---------------------------- MODULE HttpDispatch ----------------------------
EXTENDS Integers, Sequences, SequencesExt

(***************************************************************************)
(* The plain HTTP side of the server (http/http_server.c) with the handlers *)
(* of main.c, on one connection that is kept alive: the access handler is    *)
(* called for the headers, for every piece of the body and at the end, the   *)
(* client may go away in between, and the controller may stop taking         *)
(* submissions.  A body is a document cut into cells; only the whole of it   *)
(* parses.  A document names its two members, or is no JSON ("bad") or no    *)
(* object ("other").                                                         *)
(***************************************************************************)

CONSTANTS Requests,      \* [route, method, doc, len, ...]: what a client may send
          BodyMax,       \* STRIM_HTTP_BODY_MAX, in cells
          MaxRequests    \* bound: requests on the connection

VARIABLES req, sent, session, answers, submitted, reconciles, closed

httpVars == <<req, sent, session, answers, submitted, reconciles, closed>>

NoRequest == [route |-> "none"]
NoSession == [none |-> TRUE]
Cells(r)  == [i \in 1..r.len |-> <<r.doc, i, r.len>>]

\* yyjson_read: the document whose cells these are, all of them and in order.
Parsed(body) ==
    IF body # <<>> /\ body = [i \in 1..body[1][3] |-> <<body[1][1], i, body[1][3]>>]
      THEN body[1][1] ELSE [root |-> "bad"]

HttpInit ==
    /\ req = NoRequest /\ sent = 0 /\ session = NoSession
    /\ answers = <<>> /\ submitted = <<>> /\ reconciles = 0 /\ closed = FALSE

Request ==
    /\ req = NoRequest /\ Len(answers) < MaxRequests
    /\ req' \in Requests /\ sent' = 0
    /\ UNCHANGED <<session, answers, submitted, reconciles, closed>>

\* answer_cb, first call: a session for the request.
answer_cb_headers ==
    /\ req # NoRequest /\ session = NoSession
    /\ session' = [method |-> req.method, route |-> req.route, body |-> <<>>, overflow |-> FALSE]
    /\ UNCHANGED <<req, sent, answers, submitted, reconciles, closed>>

Accumulate(s, piece) ==
    IF Len(s.body) + Len(piece) <= BodyMax THEN [s EXCEPT !.body = @ \o piece]
    ELSE [s EXCEPT !.overflow = TRUE]

answer_cb_body ==
    /\ req # NoRequest /\ session # NoSession /\ sent < req.len
    /\ \E n \in 1..(req.len - sent) :
          /\ session' = Accumulate(session, SubSeq(Cells(req), sent + 1, sent + n))
          /\ sent' = sent + n
    /\ UNCHANGED <<req, answers, submitted, reconciles, closed>>

\* http_handle_event and http_handle_control: the members in order; a missing
\* one is left to the controller, which refuses it.
http_handle(body) ==
    LET doc == Parsed(body)
    IN  IF doc.root # "object" \/ doc.first = "nonstring" THEN "badjson"
        ELSE IF doc.first = "unknown" THEN "error"
        ELSE IF doc.second = "nonstring" THEN "badjson"
        ELSE IF doc.second = "unknown" \/ "missing" \in {doc.first, doc.second} \/ closed THEN "error"
        ELSE "ok"

http_handle_status == IF closed THEN "error" ELSE "ok"

\* The status, whether a submission was made, whether a reconcile was requested.
dispatch_post(s) ==
    IF s.method # "POST" THEN <<405, FALSE, FALSE>>
    ELSE IF s.overflow THEN <<413, FALSE, FALSE>>
    ELSE CASE http_handle(s.body) = "badjson" -> <<400, FALSE, FALSE>>
           [] http_handle(s.body) = "error"   -> <<500, FALSE, FALSE>>
           [] http_handle(s.body) = "ok"      -> <<204, TRUE, TRUE>>

\* The checks of the WebSocket handshake, in their order.
dispatch_subscribe(s, r) ==
    IF ~ r.upgrade THEN 426
    ELSE IF s.method # "GET" THEN 405
    ELSE IF r.version # "13" THEN 426
    ELSE IF r.key # "good" THEN 400 ELSE 101

dispatch(s, r) ==
    CASE s.route = "unknown"   -> <<404, FALSE, FALSE>>
      [] s.route = "healthz"   -> <<200, FALSE, FALSE>>
      [] s.route = "status"    -> <<IF s.method # "GET" THEN 405
                                    ELSE IF http_handle_status = "ok" THEN 200 ELSE 500, FALSE, FALSE>>
      [] s.route \in {"event", "control"} -> dispatch_post(s)
      [] s.route = "subscribe" -> <<dispatch_subscribe(s, r), FALSE, FALSE>>

Respond(result, doc) ==
    /\ answers' = Append(answers, [req |-> req, status |-> result[1], closed |-> closed])
    /\ submitted' = IF result[2] THEN Append(submitted, doc) ELSE submitted
    /\ reconciles' = IF result[3] THEN reconciles + 1 ELSE reconciles
    /\ req' = NoRequest
    /\ UNCHANGED <<sent, closed>>

\* answer_cb, last call, and request_completed_cb: the session is freed.
answer_cb_end ==
    /\ req # NoRequest /\ session # NoSession /\ sent = req.len
    /\ Respond(dispatch(session, req), Parsed(session.body))
    /\ session' = NoSession

\* The client goes away in the middle: request_completed_cb alone.
ClientAborts ==
    /\ req # NoRequest
    /\ answers' = Append(answers, [req |-> req, status |-> 0, closed |-> closed])
    /\ req' = NoRequest /\ session' = NoSession
    /\ UNCHANGED <<sent, submitted, reconciles, closed>>

QueueCloses ==
    /\ ~ closed /\ closed' = TRUE
    /\ UNCHANGED <<req, sent, session, answers, submitted, reconciles>>

HttpNext == \/ Request \/ answer_cb_headers \/ answer_cb_body \/ answer_cb_end \/ ClientAborts \/ QueueCloses
HttpSpec == HttpInit /\ [][HttpNext]_httpVars

\* What the Go handlers answer to the request as a whole.
Valid(doc) == doc.root = "object" /\ {doc.first, doc.second} \cap {"missing", "nonstring", "unknown"} = {}
Answer(r, down) ==
    CASE r.route = "unknown" -> {404}
      [] r.route = "healthz" -> {200}
      [] r.route = "status" -> {IF r.method # "GET" THEN 405 ELSE IF down THEN 500 ELSE 200}
      [] r.route \in {"event", "control"} ->
           IF r.method # "POST" THEN {405}
           ELSE IF r.len > BodyMax THEN {413}
           ELSE IF r.len > 0 /\ Valid(r.doc) THEN {IF down THEN 500 ELSE 204}
           ELSE {400, 500}
      [] r.route = "subscribe" ->
           IF r.upgrade /\ r.method = "GET" /\ r.version = "13" /\ r.key = "good" THEN {101} ELSE {400, 405, 426}

(* However the body is cut into pieces, and whatever was sent before on the  *)
(* connection, a request gets the answer its whole content calls for.        *)
AnswersFit ==
    \A i \in DOMAIN answers : answers[i].status = 0 \/ answers[i].status \in Answer(answers[i].req, answers[i].closed)

(* A body is applied exactly when its client is told 204, once, in order,    *)
(* and with one reconcile request each: not for a request that was refused,  *)
(* cut off or too large.                                                     *)
AppliedMeansAnswered ==
    LET done == SelectSeq(answers, LAMBDA a : a.status = 204)
    IN  /\ submitted = [i \in DOMAIN done |-> done[i].req.doc]
        /\ reconciles = Len(submitted)

-----------------------------------------------------------------------------
(***************************************************************************)
(* The plain HTTP side of the alternate server (alternate/c/cc_http.c), on   *)
(* top of the requests and handlers of module HttpDispatch.  Its session is  *)
(* the connection's and outlives a request; the overflow of a body is a      *)
(* length past the maximum; a request with upgrade headers takes a path of   *)
(* its own.                                                                  *)
(***************************************************************************)

Session(r) == [method |-> r.method, route |-> r.route, body |-> <<>>, len |-> 0, handled |-> FALSE]

\* http_dispatch: once per request.
http_dispatch(s) ==
    IF s.route = "subscribe" THEN <<426, FALSE, FALSE>>
    ELSE dispatch([method |-> s.method, route |-> s.route, body |-> s.body, overflow |-> s.len > BodyMax], req)

Dispatch(s) ==
    IF s.handled THEN session' = s /\ UNCHANGED <<req, sent, answers, submitted, reconciles, closed>>
    ELSE Respond(http_dispatch(s), Parsed(s.body)) /\ session' = [s EXCEPT !.handled = TRUE]

\* The session is new or its last request was answered.
Idle    == IF session = NoSession THEN TRUE ELSE session.handled
Reading == req # NoRequest /\ ~ req.upgrade

\* LWS_CALLBACK_HTTP: without a body to wait for, the answer is given at once.
CallbackHttp ==
    /\ Reading /\ Idle
    /\ IF req.method # "POST" THEN Dispatch(Session(req))
       ELSE session' = Session(req) /\ UNCHANGED <<req, sent, answers, submitted, reconciles, closed>>

\* LWS_CALLBACK_HTTP_BODY
CallbackBody ==
    /\ Reading /\ session # NoSession /\ ~ session.handled /\ sent < req.len
    /\ \E n \in 1..(req.len - sent) :
          LET piece == SubSeq(Cells(req), sent + 1, sent + n)
          IN  /\ session' = IF session.len + n <= BodyMax
                              THEN [session EXCEPT !.body = SubSeq(@, 1, session.len) \o piece, !.len = @ + n]
                              ELSE [session EXCEPT !.len = BodyMax + 1]
              /\ sent' = sent + n
    /\ UNCHANGED <<req, answers, submitted, reconciles, closed>>

\* LWS_CALLBACK_HTTP_BODY_COMPLETION
CallbackCompletion ==
    /\ Reading /\ session # NoSession /\ ~ session.handled /\ sent = req.len
    /\ Dispatch(session)

\* LWS_CALLBACK_HTTP_CONFIRM_UPGRADE: only a GET of /subscribe is upgraded;
\* any other route is answered from a session without a body.
ConfirmUpgrade ==
    /\ req # NoRequest /\ req.upgrade
    /\ IF req.route # "subscribe" THEN Respond(http_dispatch(Session(req)), [root |-> "bad"])
       ELSE Respond(<<IF req.method # "GET" THEN 405 ELSE dispatch_subscribe(Session(req), req), FALSE, FALSE>>,
                    [root |-> "bad"])
    /\ UNCHANGED session

CcHttpNext ==
    \/ Request \/ CallbackHttp \/ CallbackBody \/ CallbackCompletion \/ ConfirmUpgrade
    \/ ClientAborts \/ QueueCloses
CcHttpSpec == HttpInit /\ [][CcHttpNext]_httpVars
=============================================================================
