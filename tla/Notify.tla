------------------------------- MODULE Notify -------------------------------
(***************************************************************************)
(* The notify hook (src/core/notify.c): one process per path event, from its *)
(* arguments and the port to the exit code, against the controller's server, *)
(* which may take the event, refuse it, answer in pieces, answer late, go    *)
(* away or stall.  An answer is the status code's digits behind the protocol *)
(* version, then the rest of the head.                                       *)
(***************************************************************************)
EXTENDS Integers, Sequences, SequencesExt

CONSTANTS Hooks,         \* the hook processes
          Calls,         \* how one may be called: [args, safe, env, file, fits]
          REQUEST_LEN,   \* the length of a request, in pieces of write()
          RESPONSE_CAP   \* sizeof response, in characters of an answer

VARIABLES call, pc, sent, got, rc,    \* per hook
          conn,                       \* per hook: the server's side of its connection
          answer, taken               \* per hook: what is left to answer; times the event was applied

vars == <<call, pc, sent, got, rc, conn, answer, taken>>

Version == -1
Rest == -2
Codes == {<<2, 0, 4>>, <<4, 0, 0>>, <<5, 0, 0>>}
Text(code) == <<Version>> \o code \o <<Rest>>

Init ==
    /\ call \in [Hooks -> Calls]
    /\ pc = [h \in Hooks |-> "start"] /\ sent = [h \in Hooks |-> 0] /\ got = [h \in Hooks |-> <<>>]
    /\ rc = [h \in Hooks |-> -1] /\ conn = [h \in Hooks |-> "none"]
    /\ answer = [h \in Hooks |-> <<>>] /\ taken = [h \in Hooks |-> 0]

Exit(h, code) == pc' = [pc EXCEPT ![h] = "done"] /\ rc' = [rc EXCEPT ![h] = code]

\* The port of the environment, else of the environment file.
Port(c) == IF c.env # "unset" THEN c.env ELSE IF c.file = "malformed" THEN "bad" ELSE c.file
Refused(c) == ~c.safe \/ Port(c) # "port" \/ ~c.fits

main_start(h) ==
    /\ pc[h] = "start"
    /\ IF call[h].args < 2 THEN Exit(h, 2)
       ELSE IF Refused(call[h]) THEN Exit(h, 1)
       ELSE pc' = [pc EXCEPT ![h] = "connect"] /\ UNCHANGED rc
    /\ UNCHANGED <<call, sent, got, conn, answer, taken>>

main_connect(h) ==
    /\ pc[h] = "connect"
    /\ \/ conn' = [conn EXCEPT ![h] = "open"] /\ pc' = [pc EXCEPT ![h] = "write"] /\ UNCHANGED rc
       \/ Exit(h, 1) /\ UNCHANGED conn
    /\ UNCHANGED <<call, sent, got, answer, taken>>

\* write takes what it takes; on a connection the server closed it fails (or
\* the process is ended by SIGPIPE, an exit that is not 0 either).
main_write(h) ==
    /\ pc[h] = "write"
    /\ IF sent[h] = REQUEST_LEN THEN pc' = [pc EXCEPT ![h] = "read"] /\ UNCHANGED <<sent, rc, conn>>
       ELSE IF conn[h] = "closed" THEN Exit(h, 1) /\ UNCHANGED <<sent, conn>>
       ELSE (\E n \in 1..(REQUEST_LEN - sent[h]) : sent' = [sent EXCEPT ![h] = @ + n]) /\ UNCHANGED <<pc, rc, conn>>
    /\ UNCHANGED <<call, got, answer, taken>>

\* sscanf "HTTP/%*d.%*d %d": the digits that came.
Digits(text) == SelectSeq(text, LAMBDA ch : ch >= 0)
StatusCode(text) == FoldLeft(LAMBDA n, d : 10 * n + d, 0, Digits(text))

Judge(text) ==
    IF Len(text) < 2 THEN 1 ELSE IF StatusCode(text) >= 200 /\ StatusCode(text) < 300 THEN 0 ELSE 1

\* A piece of the answer; the buffer full ends the reading.
main_read(h) ==
    /\ pc[h] = "read" /\ answer[h] # <<>> /\ conn[h] # "none"
    /\ \E n \in 1..Len(answer[h]) :
          LET m == IF Len(got[h]) + n < RESPONSE_CAP THEN n ELSE RESPONSE_CAP - Len(got[h])
              all == got[h] \o SubSeq(answer[h], 1, m)
          IN  /\ got' = [got EXCEPT ![h] = all] /\ answer' = [answer EXCEPT ![h] = SubSeq(@, m + 1, Len(@))]
              /\ IF Len(all) = RESPONSE_CAP THEN Exit(h, Judge(all)) ELSE UNCHANGED <<pc, rc>>
    /\ UNCHANGED <<call, sent, conn, taken>>

\* Mutant: no SO_RCVTIMEO, only the server ends the reading.
main_read_endWaits(h) ==
    /\ pc[h] = "read" /\ answer[h] = <<>> /\ conn[h] = "closed"
    /\ Exit(h, Judge(got[h])) /\ UNCHANGED <<call, sent, got, conn, answer, taken>>

\* The server closed, or nothing came for RESPONSE_TIMEOUT_SEC: judge what came.
main_read_end(h) ==
    /\ pc[h] = "read" /\ answer[h] = <<>>
    /\ Exit(h, Judge(got[h])) /\ UNCHANGED <<call, sent, got, conn, answer, taken>>

\* The server: a whole request is applied and answered, or refused.
ServerAnswers(h) ==
    /\ conn[h] = "open" /\ sent[h] = REQUEST_LEN /\ taken[h] = 0 /\ answer[h] = <<>> /\ got[h] = <<>>
    /\ \E code \in Codes :
          /\ answer' = [answer EXCEPT ![h] = Text(code)]
          /\ taken' = IF code[1] = 2 THEN [taken EXCEPT ![h] = @ + 1] ELSE taken
          /\ conn' = [conn EXCEPT ![h] = "answered"]
    /\ UNCHANGED <<call, pc, sent, got, rc>>

\* The controller goes away: an answer that was not sent is cut anywhere.
ServerCloses(h) ==
    /\ conn[h] \in {"open", "answered"}
    /\ conn' = [conn EXCEPT ![h] = "closed"]
    /\ \E n \in 0..Len(answer[h]) : answer' = [answer EXCEPT ![h] = SubSeq(@, 1, n)]
    /\ UNCHANGED <<call, pc, sent, got, rc, taken>>

Main(h) == main_start(h) \/ main_connect(h) \/ main_write(h) \/ main_read(h) \/ main_read_end(h)
Next == \E h \in Hooks : Main(h) \/ ServerAnswers(h) \/ ServerCloses(h)
Spec == Init /\ [][Next]_vars /\ \A h \in Hooks : WF_vars(Main(h))

(* A hook that exits 0 had its event applied, whatever piece of an answer it  *)
(* judged; one that was refused before the request was whole had none.        *)
ExitMeansTaken ==
    \A h \in Hooks : pc[h] = "done" => (rc[h] = 0 => taken[h] = 1) /\ (sent[h] < REQUEST_LEN => taken[h] = 0)

=============================================================================
