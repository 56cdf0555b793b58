----------------------------- MODULE ServerLink -----------------------------
(***************************************************************************)
(* The REQ socket of the ConnectionHandler and the score server behind it. *)
(* The server is not in the repository: it is modelled from the requests   *)
(* the client sends and from what the client does with each reply.  It     *)
(* takes one request at a time, counts an addPoints, and may answer        *)
(* playerDead with any text.                                               *)
(***************************************************************************)
EXTENDS Naturals

VARIABLES
  socket,        \* "idle", "sent" (request under way) or "answered"
  request,       \* the request under way, "none" when idle
  reply,         \* the reply that waits to be received, "none" before
  points         \* the points the server has counted

linkVars == <<socket, request, reply, points>>

ADD_POINTS == "addPoints"
PLAYER_DEAD == "playerDead"
WINNER == "winner"
Requests == {ADD_POINTS, PLAYER_DEAD, WINNER}

\* What std::stoi makes of the answer to playerDead: no lives are left, some
\* are, or it throws.  The other answers are never looked at.
LifeReplies == {"zero", "lives", "noNumber"}

LinkInit ==
  /\ socket = "idle"
  /\ request = "none"
  /\ reply = "none"
  /\ points = 0

\* socket->send.  On a socket that is not idle ZeroMQ would throw.
Send(message) ==
  /\ socket' = "sent"
  /\ request' = message
  /\ reply' = "none"
  /\ UNCHANGED points

\* The server takes the request and answers it.
ServerReply ==
  /\ socket = "sent"
  /\ socket' = "answered"
  /\ reply' \in (IF request = PLAYER_DEAD THEN LifeReplies ELSE {"ok"})
  /\ points' = points + (IF request = ADD_POINTS THEN 1 ELSE 0)
  /\ UNCHANGED request

\* socket->recv returns: it blocks until the answer is there.
Receive(message) ==
  /\ socket = "answered"
  /\ request = message
  /\ socket' = "idle"
  /\ request' = "none"
  /\ reply' = "none"
  /\ UNCHANGED points
=============================================================================
