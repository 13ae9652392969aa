------------------------------ MODULE PromServe ------------------------------
(***************************************************************************)
(* prom-serve (crates/cli/src/main.rs run_prom_serve): a server that takes    *)
(* one connection at a time, reads once, and answers with the metrics text or *)
(* with 404.  Clients connect, send a request in one or two segments or not   *)
(* at all, and hang up whenever they like.  A text is the number of the       *)
(* render that made it; the text itself is left out.                         *)
(***************************************************************************)
EXTENDS Integers, Sequences

CONSTANT
  Clients       \* bound: connections made, numbered from 1

Client == 1 .. Clients

\* Answers: none yet, 404, or the number of the render in a 200
NoAnswer == -1
NotFound == -2

VARIABLES
  opts,      \* [refresh, once]: refresh_on_scrape and --once
  server,    \* [pc, cur, req, cached]: where the loop is, the connection it serves, what
             \* read returned, and the render kept
  renders,   \* renders made
  backlog,   \* connections not accepted yet, in order
  conn       \* per client [state, sent, asked, got]: the connection, the request sent so
             \* far, the number of renders when it was complete, the answer

vars == <<opts, server, renders, backlog, conn>>

\* The first render and the listening socket.
Init ==
  /\ opts \in [refresh : BOOLEAN, once : BOOLEAN]
  /\ server = [pc |-> "accept", cur |-> 0, req |-> "nothing", cached |-> 1]
  /\ renders = 1 /\ backlog = << >>
  /\ conn = [c \in Client |-> [state |-> "absent", sent |-> "nothing", asked |-> 0, got |-> NoAnswer]]

-----------------------------------------------------------------------------
(* Clients                                                                  *)

Connect(c) ==
  /\ conn[c].state = "absent" /\ \A d \in 1 .. c - 1 : conn[d].state # "absent"
  /\ conn' = [conn EXCEPT ![c].state = "open"]
  /\ backlog' = Append(backlog, c)
  /\ UNCHANGED <<opts, server, renders>>

\* A segment: a whole request for the metrics or for something else, the first part of
\* one, cut before the end of the path, or the rest of it.
Send(c, r) ==
  /\ conn[c].state = "open" /\ conn[c].got = NoAnswer
  /\ conn[c].sent = "nothing" \/ (conn[c].sent = "part" /\ r = "metrics")
  /\ conn' = [conn EXCEPT ![c].sent = r, ![c].asked = renders]
  /\ UNCHANGED <<opts, server, renders, backlog>>

HangUp(c) ==
  /\ conn[c].state = "open"
  /\ conn' = [conn EXCEPT ![c].state = "closed"]
  /\ UNCHANGED <<opts, server, renders, backlog>>

-----------------------------------------------------------------------------
(* The server                                                               *)

Cur == conn[server.cur]

\* An error of accept, possible when the client is gone again, ends the server.
Accept ==
  /\ server.pc = "accept" /\ backlog # << >>
  /\ backlog' = Tail(backlog)
  /\ \/ server' = [server EXCEPT !.pc = "read", !.cur = Head(backlog)]
     \/ conn[Head(backlog)].state = "closed" /\ server' = [server EXCEPT !.pc = "error"]
  /\ UNCHANGED <<opts, renders, conn>>

\* Mutated Read: the server reads on until the request is whole.
ReadWhole ==
  /\ server.pc = "read" /\ (Cur.sent \in {"metrics", "other"} \/ Cur.state = "closed")
  /\ server' = [server EXCEPT !.req = Cur.sent, !.pc = IF Cur.sent = "metrics" THEN "render" ELSE "refuse"]
  /\ UNCHANGED <<opts, renders, backlog, conn>>

\* One read, without a time-out; is_metrics looks at what it returned.  A client that has
\* hung up may make it fail, whatever it sent, and an error counts as nothing read.
Read ==
  /\ server.pc = "read" /\ (Cur.sent # "nothing" \/ Cur.state = "closed")
  /\ \E r \in {Cur.sent, "nothing"} :
       /\ r # Cur.sent => Cur.state = "closed"
       /\ server' = [server EXCEPT !.req = r, !.pc = IF r = "metrics" THEN "render" ELSE "refuse"]
  /\ UNCHANGED <<opts, renders, backlog, conn>>

\* render runs a bench; its error ends the server.
Render ==
  /\ server.pc = "render"
  /\ IF opts.refresh
       THEN \/ /\ renders' = renders + 1
               /\ server' = [server EXCEPT !.cached = renders + 1, !.pc = "write"]
            \/ server' = [server EXCEPT !.pc = "error"] /\ UNCHANGED renders
       ELSE server' = [server EXCEPT !.pc = "write"] /\ UNCHANGED renders
  /\ UNCHANGED <<opts, backlog, conn>>

\* Mutated RenderKept: the scrape is answered before the text is renewed.
RenderKeptStale == IF opts.refresh THEN server.cached - 1 ELSE server.cached
\* The text a scrape is answered with
RenderKept == server.cached

Served == IF opts.once THEN "exit" ELSE "accept"

\* Header and body; a client that has hung up may make either write fail, which ends the
\* server.
Write ==
  /\ server.pc = "write"
  /\ \/ /\ server' = [server EXCEPT !.pc = Served]
        /\ conn' = [conn EXCEPT ![server.cur].got = RenderKept]
     \/ /\ Cur.state = "closed"
        /\ server' = [server EXCEPT !.pc = "error"] /\ UNCHANGED conn
  /\ UNCHANGED <<opts, renders, backlog>>

\* 404; errors of these writes are ignored.
Refuse ==
  /\ server.pc = "refuse"
  /\ conn' = [conn EXCEPT ![server.cur].got = NotFound]
  /\ server' = [server EXCEPT !.pc = "accept"]
  /\ UNCHANGED <<opts, renders, backlog>>

Serve == Accept \/ Read \/ Render \/ Write \/ Refuse

Next ==
  \/ Serve
  \/ \E c \in Client : Connect(c) \/ HangUp(c) \/ \E r \in {"metrics", "other", "part"} : Send(c, r)

\* The server's loop runs; clients owe nothing.
Fairness == WF_vars(Serve)
Spec == Init /\ [][Next]_vars /\ Fairness

-----------------------------------------------------------------------------
(* Properties                                                               *)

\* Type invariant.
TypeOK ==
  /\ opts \in [refresh : BOOLEAN, once : BOOLEAN] /\ renders \in 1 .. Clients + 1
  /\ server.pc \in {"accept", "read", "render", "write", "refuse", "exit", "error"}
  /\ server.cur \in 0 .. Clients /\ server.cached \in 1 .. renders
  /\ \A c \in Client : conn[c].got \in {NoAnswer, NotFound} \cup 1 .. renders

ServedClients == {c \in Client : conn[c].got >= 1}

\* With refresh_on_scrape a scrape gets a text rendered after it asked, and nobody else
\* gets that one; without, everybody gets the first.  --once serves one scrape and ends
\* there, however many are refused before, and never ends with none.  The server dies
\* only of a client that hung up or, rendering on demand, of a bench that failed.
ScrapesAreFresh ==
  /\ \A c \in ServedClients :
       /\ conn[c].sent = "metrics"
       /\ IF opts.refresh
            THEN conn[c].got > conn[c].asked /\ \A d \in ServedClients \ {c} : conn[d].got # conn[c].got
            ELSE conn[c].got = 1
  /\ opts.once => \A c, d \in ServedClients : c = d
  /\ server.pc = "exit" => opts.once /\ ServedClients # {}
  /\ server.pc = "error" => opts.refresh \/ \E c \in Client : conn[c].state = "closed"

\* A client that waits with its request sent is answered (a scrape cut in two possibly
\* with 404), or hangs up, or the server ends, or the server is held up by a client
\* that has connected and says nothing: a request that came in part holds nobody up.
Waiting(c) == conn[c].state = "open" /\ conn[c].sent # "nothing" /\ conn[c].got = NoAnswer
HeldUp == server.pc = "read" /\ Cur.sent = "nothing" /\ Cur.state = "open"
ScrapeAnswered ==
  \A c \in Client :
    Waiting(c) ~> (conn[c].got # NoAnswer \/ conn[c].state = "closed" \/ server.pc \in {"exit", "error"} \/ HeldUp)
=============================================================================
