------------------------------ MODULE HttpServer ------------------------------
(***************************************************************************)
(* The single-threaded receiver of src/src/agent/http_server.c: its table  *)
(* of connections, http_server_tick (poll, accept, one recv per ready      *)
(* connection, reap) and the framing of requests in conn_service.          *)
(*                                                                         *)
(* A client writes the requests of its script as a stream of pieces        *)
(* <<r, k>>, the k-th piece of its r-th request.  Piece 1 carries the      *)
(* request line, piece HeaderLen ends the headers, the others are body.    *)
(* The pieces of a request may arrive over any number of recv calls, and   *)
(* a recv may return the end of one request with the start of the next.    *)
(***************************************************************************)
EXTENDS Naturals, Sequences, FiniteSets

CONSTANTS
  Clients,      \* one connection each
  Script,       \* the requests each client sends
  Pipelining,   \* the clients that send a request before the last is answered
  MaxConns,     \* PW_HTTP_MAX_CONNS
  IdleTimeout   \* idle_timeout_sec

(***************************************************************************)
(* What a request is to this server.  "ok" and "bad" are what the handler  *)
(* accepts and refuses; "get" is any method but POST, on a known path with *)
(* nothing for the handler to refuse; "malformed" has no usable header.    *)
(***************************************************************************)
Kinds == {"ok", "bad", "get", "unknown", "toolarge", "badgzip", "malformed"}

Request == [kind : Kinds, body : Nat, close : {0, 1}]

ASSUME HttpAssumption ==
  /\ Script \in [Clients -> Seq(Request)]
  /\ Pipelining \subseteq Clients
  /\ MaxConns \in Nat \ {0}
  /\ IdleTimeout \in Nat

VARIABLES
  pc,       \* "tick" outside of http_server_tick, then "accept", "serve"
  ready,    \* what poll reported: clients, and "listen" for the listening socket
  st,       \* of a client's connection: "none", "backlog", "open", "closed"
  peer,     \* "up", "fin" (sent its FIN), "reset", or "dead" (silent for good)
  written,  \* the last piece a client wrote
  wire,     \* pieces in the kernel's receive buffer
  buf,      \* pieces in c->buf
  head,     \* the parsed header: its request and body_offset, or NoHead
  idle,     \* seconds since last_active
  answers   \* responses sent: request, body handed over, status

conns == <<st, buf, head, idle, answers>>
net == <<peer, written, wire>>
vars == <<pc, ready, conns, net>>

HeaderLen == 2

NoHead == [req |-> 0, off |-> 0]

Open == {c \in Clients : st[c] = "open"}

TypeOK ==
  /\ pc \in {"tick", "accept", "serve"}
  /\ ready \subseteq Clients \cup {"listen"}
  /\ st \in [Clients -> {"none", "backlog", "open", "closed"}]
  /\ Cardinality(Open) <= MaxConns
  /\ peer \in [Clients -> {"up", "fin", "reset", "dead"}]
  /\ written \in [Clients -> Nat \X Nat]
  /\ wire \in [Clients -> Seq(Nat \X Nat)]
  /\ buf \in [Clients -> Seq(Nat \X Nat)]
  /\ head \in [Clients -> [req : Nat, off : Nat]]
  /\ idle \in [Clients -> 0..IdleTimeout + 1]
  /\ answers \in [Clients -> Seq([req : Nat, body : Seq(Nat \X Nat), status : Nat])]

Init ==
  /\ pc = "tick" /\ ready = {}
  /\ st = [c \in Clients |-> "none"]
  /\ peer = [c \in Clients |-> "up"]
  /\ written = [c \in Clients |-> <<1, 0>>]
  /\ wire = [c \in Clients |-> <<>>]
  /\ buf = [c \in Clients |-> <<>>]
  /\ head = [c \in Clients |-> NoHead]
  /\ idle = [c \in Clients |-> 0]
  /\ answers = [c \in Clients |-> <<>>]

-------------------------------------------------------------------------------
(***************************************************************************)
(* The clients and the network.                                            *)
(***************************************************************************)
Connect(c) ==
  /\ st[c] = "none"
  /\ st' = [st EXCEPT ![c] = "backlog"]
  /\ UNCHANGED <<pc, ready, buf, head, idle, answers, net>>

(* The piece after the last one written, of the same request or the next. *)
NextPiece(c) ==
  LET r == written[c][1]
      k == written[c][2]
  IN  IF k < HeaderLen + Script[c][r].body THEN <<r, k + 1>> ELSE <<r + 1, 1>>

Send(c) ==
  LET p == NextPiece(c)
  IN  /\ st[c] \in {"backlog", "open"} /\ peer[c] = "up"
      /\ p[1] <= Len(Script[c])
      /\ c \in Pipelining \/ p[1] <= Len(answers[c]) + 1
      /\ written' = [written EXCEPT ![c] = p]
      /\ wire' = [wire EXCEPT ![c] = Append(@, p)]
      /\ UNCHANGED <<pc, ready, conns, peer>>

(* The client closes its side, its connection breaks, or its host is gone. *)
Leave(c) ==
  /\ st[c] \in {"backlog", "open"} /\ peer[c] = "up"
  /\ \E p \in {"fin", "reset", "dead"} : peer' = [peer EXCEPT ![c] = p]
  /\ UNCHANGED <<pc, ready, conns, written, wire>>

(* A second passes, wherever the thread is. *)
Second ==
  /\ \E c \in Open : idle[c] <= IdleTimeout
  /\ idle' = [c \in Clients |->
                IF st[c] = "open" /\ idle[c] <= IdleTimeout THEN idle[c] + 1 ELSE idle[c]]
  /\ UNCHANGED <<pc, ready, st, buf, head, answers, net>>

-------------------------------------------------------------------------------
(***************************************************************************)
(* http_server_tick: poll and accept_new.                                  *)
(***************************************************************************)

(* poll reports the sockets with something to do, or times out. *)
Poll ==
  /\ pc = "tick"
  /\ pc' = "accept"
  /\ ready' = {c \in Open : wire[c] # <<>> \/ peer[c] \in {"fin", "reset"}}
              \cup (IF \E c \in Clients : st[c] = "backlog" THEN {"listen"} ELSE {})
  /\ UNCHANGED <<conns, net>>

(* Mutant of Accept: nobody counts the slots. *)
AcceptAlways(c) ==
  /\ pc = "accept" /\ "listen" \in ready /\ st[c] = "backlog"
  /\ st' = [st EXCEPT ![c] = "open"]
  /\ idle' = [idle EXCEPT ![c] = 0]
  /\ UNCHANGED <<pc, ready, buf, head, answers, net>>

(* A connection gets a free slot; without one it is closed at once. *)
Accept(c) ==
  /\ pc = "accept" /\ "listen" \in ready /\ st[c] = "backlog"
  /\ st' = [st EXCEPT ![c] = IF Cardinality(Open) < MaxConns THEN "open" ELSE "closed"]
  /\ idle' = [idle EXCEPT ![c] = 0]
  /\ UNCHANGED <<pc, ready, buf, head, answers, net>>

AcceptDone ==
  /\ pc = "accept"
  /\ "listen" \notin ready \/ \A c \in Clients : st[c] # "backlog"
  /\ pc' = "serve"
  /\ ready' = ready \ {"listen"}
  /\ UNCHANGED <<conns, net>>

-------------------------------------------------------------------------------
(***************************************************************************)
(* conn_service, once for each connection that poll reported.              *)
(***************************************************************************)

(* conn_reset of the connections in S. *)
Reset(S) ==
  /\ st' = [c \in Clients |-> IF c \in S THEN "closed" ELSE st[c]]
  /\ buf' = [c \in Clients |-> IF c \in S THEN <<>> ELSE buf[c]]
  /\ head' = [c \in Clients |-> IF c \in S THEN NoHead ELSE head[c]]

(* POLLHUP, POLLERR; or a recv that returns 0. *)
ServeGone(c) ==
  /\ pc = "serve" /\ c \in ready
  /\ peer[c] = "reset" \/ (wire[c] = <<>> /\ peer[c] = "fin")
  /\ Reset({c})
  /\ ready' = ready \ {c}
  /\ UNCHANGED <<pc, idle, answers, net>>

(* A recv of n pieces; got is what c->buf holds then. *)
Recv(c, n) ==
  /\ pc = "serve" /\ c \in ready
  /\ peer[c] # "reset" /\ n \in 1..Len(wire[c])
  /\ wire' = [wire EXCEPT ![c] = SubSeq(@, n + 1, Len(@))]
  /\ ready' = ready \ {c}
  /\ idle' = [idle EXCEPT ![c] = 0]
  /\ UNCHANGED <<pc, peer, written>>

Got(c, n) == buf[c] \o SubSeq(wire[c], 1, n)

(* The first blank line, or 0. *)
Blank(got) ==
  LET B == {i \in DOMAIN got : got[i][2] = HeaderLen}
  IN  IF B = {} THEN 0 ELSE CHOOSE i \in B : \A j \in B : i <= j

(* parse_headers, unless headers_done: the request line starts the buffer. *)
Parsed(c, got) ==
  IF head[c] # NoHead THEN head[c] ELSE [req |-> got[1][1], off |-> Blank(got)]

Of(c, h) == Script[c][h.req]

(* parse_headers returns -1. *)
Malformed(c, got) ==
  /\ head[c] = NoHead /\ Blank(got) # 0
  /\ got[1][2] # 1 \/ Script[c][got[1][1]].kind = "malformed"

(* Nor need it end: more than HEADER_MAX bytes without a blank line. *)
Overlong(c, got) ==
  /\ head[c] = NoHead /\ Blank(got) = 0
  /\ Script[c][got[1][1]].kind = "malformed"

(* Only a POST has a content_length and may keep the connection. *)
ContentLength(c, h) == IF Of(c, h).kind = "get" THEN 0 ELSE Of(c, h).body
KeepAlive(c, h) == Of(c, h).kind # "get" /\ Of(c, h).close = 0

(* Mutant of BodyMissing: off by one. *)
BodyMissingByOne(c, got, h) == Len(got) - h.off <= ContentLength(c, h)

BodyMissing(c, got, h) == Len(got) - h.off < ContentLength(c, h)

Body(c, got, h) == SubSeq(got, h.off + 1, h.off + ContentLength(c, h))

Respond(c, h, body, status) ==
  answers' = [answers EXCEPT ![c] =
                Append(@, [req |-> h.req, body |-> body, status |-> status])]

(* The header block is not complete. *)
RecvHeaderPart(c, n) ==
  LET got == Got(c, n)
  IN  /\ Recv(c, n)
      /\ head[c] = NoHead /\ Blank(got) = 0
      /\ buf' = [buf EXCEPT ![c] = got]
      /\ UNCHANGED <<st, head, answers>>

RecvMalformed(c, n) ==
  /\ Recv(c, n)
  /\ Malformed(c, Got(c, n)) \/ Overlong(c, Got(c, n))
  /\ Reset({c})
  /\ UNCHANGED answers

(* The header is complete and usable. *)
HeadersDone(c, got) == (head[c] # NoHead \/ Blank(got) # 0) /\ ~Malformed(c, got)

(* 413, as soon as the header is parsed. *)
RecvTooLarge(c, n) ==
  LET got == Got(c, n)
      h == Parsed(c, got)
  IN  /\ Recv(c, n)
      /\ HeadersDone(c, got) /\ head[c] = NoHead /\ Of(c, h).kind = "toolarge"
      /\ Respond(c, h, <<>>, 413)
      /\ Reset({c})

RecvBodyPart(c, n) ==
  LET got == Got(c, n)
      h == Parsed(c, got)
  IN  /\ Recv(c, n)
      /\ HeadersDone(c, got) /\ Of(c, h).kind # "toolarge"
      /\ BodyMissing(c, got, h)
      /\ buf' = [buf EXCEPT ![c] = got]
      /\ head' = [head EXCEPT ![c] = h]
      /\ UNCHANGED <<st, answers>>

(* Mutant of Carry: headers_done is not cleared. *)
CarryKeepsHead(c, got, h) ==
  /\ buf' = [buf EXCEPT ![c] = SubSeq(got, h.off + ContentLength(c, h) + 1, Len(got))]
  /\ head' = [head EXCEPT ![c] = h]
  /\ UNCHANGED st

(* "Carry over any pipelined bytes that belong to the next request." *)
Carry(c, got, h) ==
  /\ buf' = [buf EXCEPT ![c] = SubSeq(got, h.off + ContentLength(c, h) + 1, Len(got))]
  /\ head' = [head EXCEPT ![c] = NoHead]
  /\ UNCHANGED st

(* 404 for an unknown path, 400 for a body that does not inflate, else what *)
(* the handler says.                                                       *)
Status(c, h) ==
  CASE Of(c, h).kind = "unknown" -> 404
    [] Of(c, h).kind \in {"badgzip", "bad"} -> 400
    [] OTHER -> 200

RecvRequest(c, n) ==
  LET got == Got(c, n)
      h == Parsed(c, got)
  IN  /\ Recv(c, n)
      /\ HeadersDone(c, got) /\ Of(c, h).kind # "toolarge"
      /\ ~BodyMissing(c, got, h)
      /\ Respond(c, h, Body(c, got, h), Status(c, h))
      /\ \/ KeepAlive(c, h) /\ Carry(c, got, h)
         \/ ~KeepAlive(c, h) /\ Reset({c})

Overdue == {c \in Open : idle[c] > IdleTimeout}

(* Mutant of Reap: a connection in the middle of a request is spared. *)
ReapBetweenRequests ==
  /\ pc = "serve" /\ ready = {}
  /\ pc' = "tick"
  /\ Reset({c \in Overdue : buf[c] = <<>>})
  /\ UNCHANGED <<ready, idle, answers, net>>

(* The end of the tick: "Reap idle connections". *)
Reap ==
  /\ pc = "serve" /\ ready = {}
  /\ pc' = "tick"
  /\ Reset(Overdue)
  /\ UNCHANGED <<ready, idle, answers, net>>

Serve(c) ==
  \/ ServeGone(c)
  \/ \E n \in 1..Len(wire[c]) :
       \/ RecvHeaderPart(c, n) \/ RecvMalformed(c, n) \/ RecvTooLarge(c, n)
       \/ RecvBodyPart(c, n) \/ RecvRequest(c, n)

Server ==
  \/ Poll \/ AcceptDone \/ Reap
  \/ \E c \in Clients : Accept(c) \/ Serve(c)

Next ==
  \/ Server \/ Second
  \/ \E c \in Clients : Connect(c) \/ Send(c) \/ Leave(c)

(* agentd calls http_server_tick in an endless loop; seconds pass. *)
Spec == Init /\ [][Next]_vars /\ WF_vars(Server) /\ WF_vars(Second)

-------------------------------------------------------------------------------
(* a answers the i-th request of client c, after all of its body, 413 apart. *)
AnswerTo(c, i, a) ==
  /\ a.req = i
  /\ a.status # 413 => a.body = [k \in 1..ContentLength(c, a) |-> <<i, HeaderLen + k>>]

(***************************************************************************)
(* Framing: however the stream is cut, a client's i-th response is for its *)
(* i-th request, and what the handler was given is exactly the body of     *)
(* that request (413 apart, which is sent before the body is read).        *)
(***************************************************************************)
AnswersMatchRequests ==
  \A c \in Clients : \A i \in DOMAIN answers[c] : AnswerTo(c, i, answers[c][i])

(* c->buf holds a whole request. *)
HoldsRequest(c) ==
  LET h == Parsed(c, buf[c])
  IN  /\ Blank(buf[c]) # 0 /\ ~Malformed(c, buf[c])
      /\ Len(buf[c]) - h.off >= ContentLength(c, h)

(***************************************************************************)
(* A request that has arrived in full is answered, for a client that waits *)
(* for its responses: it never sits in c->buf for bytes that need not      *)
(* come.  (A pipelined one may: conn_service handles one request per recv, *)
(* http_server.c lines 377-388, and poll does not see what it carried      *)
(* over.)                                                                  *)
(***************************************************************************)
NoRequestWaits == \A c \in Open \ Pipelining : wire[c] = <<>> => ~HoldsRequest(c)

(***************************************************************************)
(* "Reap idle connections so a pod that dies mid-request cannot leak a     *)
(* slot" (http_server.c line 450): a connection whose client fell silent   *)
(* is closed, whatever the other clients send or leave half done.          *)
(***************************************************************************)
SlotReleased ==
  \A c \in Clients : st[c] = "open" /\ peer[c] = "dead" ~> st[c] = "closed"
===============================================================================
