---------------------------- MODULE PayloadLimit ----------------------------
(***************************************************************************)
(* api/app.py, PayloadLimitMiddleware: one HTTP request.  The body is      *)
(* received chunk by chunk, counted and kept; the application then reads   *)
(* what was kept instead of the network.  A client may also go away.       *)
(*                                                                         *)
(* A message of the ASGI receive stream is a chunk with a size, or the     *)
(* disconnect.                                                             *)
(***************************************************************************)
EXTENDS Integers, Sequences, FiniteSets

CONSTANTS
  Limit,      \* limit_bytes
  Sizes,      \* the sizes of chunks
  Declared,   \* what the Content-Length header may say, or None
  MaxChunks,  \* bound on the chunks of a request
  None

ASSUME PayloadAssumption ==
  /\ Limit \in Nat /\ Sizes \subseteq Nat
  /\ Declared \subseteq Nat \cup {None} /\ None \notin Nat
  /\ MaxChunks \in Nat \ {0}

Chunks == [type : {"request"}, size : Sizes, more : BOOLEAN]
Disconnect == [type |-> "disconnect", size |-> 0, more |-> FALSE]
EndOfBody == [type |-> "request", size |-> 0, more |-> FALSE]
Messages == Chunks \cup {Disconnect, EndOfBody}

VARIABLES
  pc,
  declared,  \* the Content-Length header, or None
  sent,      \* the messages received from the server
  buffered,  \* the messages the application has still to read
  total,     \* the bytes counted so far
  read       \* the messages the application has read

vars == <<pc, declared, sent, buffered, total, read>>

Init ==
  /\ pc = "header"
  /\ declared \in Declared
  /\ sent = << >> /\ buffered = << >> /\ total = 0 /\ read = << >>

TooMuchFault(n) == n >= Limit
TooMuch(n) == n > Limit

CheckHeader ==
  /\ pc = "header"
  /\ pc' = IF declared # None /\ TooMuch(declared) THEN "refused" ELSE "receive"
  /\ UNCHANGED <<declared, sent, buffered, total, read>>

KeptFault(m) == IF m = Disconnect THEN buffered ELSE Append(buffered, m)
Kept(m) == Append(buffered, m)

ReceiveChunk(m) ==
  /\ pc = "receive"
  /\ m.more => Len(sent) + 1 < MaxChunks
  /\ sent' = Append(sent, m)
  /\ buffered' = Kept(m)
  /\ total' = total + m.size
  /\ pc' = IF TooMuch(total') THEN "refused" ELSE IF m.more THEN "receive" ELSE "app"
  /\ UNCHANGED <<declared, read>>

ReceiveDisconnect ==
  /\ pc = "receive"
  /\ sent' = Append(sent, Disconnect)
  /\ buffered' = Kept(Disconnect)
  /\ pc' = "app"
  /\ UNCHANGED <<declared, total, read>>

(* The application reads from replay_receive until the body ends, or the   *)
(* client is gone.                                                         *)
AppReads ==
  /\ pc = "app"
  /\ LET m == IF buffered = << >> THEN EndOfBody ELSE Head(buffered)
     IN  /\ read' = Append(read, m)
         /\ pc' = IF m = Disconnect THEN "aborted" ELSE IF m.more THEN "app" ELSE "served"
  /\ buffered' = IF buffered = << >> THEN buffered ELSE Tail(buffered)
  /\ UNCHANGED <<declared, sent, total>>

Next ==
  \/ CheckHeader
  \/ \E m \in Chunks : ReceiveChunk(m)
  \/ ReceiveDisconnect
  \/ AppReads

Spec == Init /\ [][Next]_vars

-----------------------------------------------------------------------------
(* The types of the variables.                                             *)
TypeOK ==
  /\ pc \in {"header", "receive", "app", "served", "aborted", "refused"}
  /\ declared \in Declared
  /\ sent \in Seq(Messages) /\ buffered \in Seq(Messages) /\ read \in Seq(Messages)
  /\ total \in Nat

(* docs/api.md: the limit holds for "the actual ASGI request body,         *)
(* including chunked requests without Content-Length": a request reaches   *)
(* the application exactly when neither its header nor its body exceeds    *)
(* the limit, however the body is split.                                   *)
BytesOf(s) == UNION {{i} \X (1..s[i].size) : i \in DOMAIN s}
Bytes(s) == Cardinality(BytesOf(s))
LimitIsExact ==
  pc \notin {"header", "receive"} =>
    (pc = "refused" <=> (declared # None /\ declared > Limit) \/ Bytes(sent) > Limit)

(* The application takes a body for complete only when it has read every   *)
(* chunk, in order, of a body that the client completed: never a part of   *)
(* one whose client went away.                                             *)
ServedBodiesAreComplete ==
  pc = "served" => read = sent /\ \A i \in DOMAIN sent : sent[i] # Disconnect
=============================================================================
