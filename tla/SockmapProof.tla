----------------------------- MODULE SockmapProof -----------------------------
(***************************************************************************)
(* Proofs about the socketmap server, for any number of connections.       *)
(***************************************************************************)
EXTENDS Sockmap, TLAPS

(* What is true of one connection between two steps: what the client has   *)
(* sent and what handleConn has read are parts of the one request that the *)
(* client waits for; a client that does not wait has sent nothing.         *)
ConnInv(c) ==
    /\ client[c] \in Request => asked[c] = client[c] /\ input[c] = "none" /\ c \notin owed
    /\ client[c] = "first"   => asked[c] \in Request /\ input[c] = "none"
    /\ input[c] \in Request  => asked[c] = input[c] /\ client[c] \in {"nothing", "gone"} /\ c \notin owed
    /\ asked[c] = "none"     => input[c] = "none" /\ client[c] \in {"nothing", "gone"} /\ c \notin owed
    /\ pc[c] = "answer" <=> input[c] # "none"

(* The map has every connection whose handler has registered it.           *)
Registered == \A c \in Conn : pc[c] \in Handling \ {"accepted"} => c \in conns

(* When Close has been through the map, what is still open in it came      *)
(* later; before, nothing is late.                                         *)
CutOff ==
    /\ Looked  => conns \cap open \subseteq late
    /\ ~Looked => late = {} /\ answered = {}

(* Close announces itself before it closes the listener.                   *)
Announced == done \/ (listening /\ closer = "idle")

SockInv ==
    /\ TypeOK
    /\ \A c \in Conn : ConnInv(c)
    /\ Registered /\ CutOff /\ Announced
    /\ ServeEndsQuietly /\ NoAnswerAfterClosing /\ AnswersAreRight

-----------------------------------------------------------------------------
LEMMA SockInit == ASSUME Init PROVE SockInv
<1> USE DEF Init
<1>1. TypeOK
  <2>1. /\ pc \in [Conn -> Handling \cup {"none", "queued"}]
        /\ client \in [Conn -> {"nothing", "gone"} \cup Request \cup Piece]
        /\ asked \in [Conn -> {"none", "error"} \cup Request]
        /\ input \in [Conn -> {"none"} \cup Request \cup Piece]
    OBVIOUS
  <2>2. listening \in BOOLEAN /\ done \in BOOLEAN /\ lateServe \in BOOLEAN /\ broken \in BOOLEAN
    BY Zenon
  <2> QED  BY <2>1, <2>2 DEF TypeOK
<1>2. \A c \in Conn : ConnInv(c)
  BY DEF ConnInv, Request
<1>3. Registered /\ CutOff /\ Announced
  BY DEF Registered, CutOff, Announced, Looked, Handling
<1>4. ServeEndsQuietly /\ NoAnswerAfterClosing /\ AnswersAreRight
  BY DEF ServeEndsQuietly, NoAnswerAfterClosing, AnswersAreRight
<1> QED  BY <1>1, <1>2, <1>3, <1>4 DEF SockInv

(* A connection whose client, handler and request are as before.           *)
LEMMA ConnStays ==
    ASSUME SockInv, NEW d \in Conn,
           pc'[d] = pc[d], client'[d] = client[d], asked'[d] = asked[d], input'[d] = input[d],
           d \in owed' <=> d \in owed
    PROVE  ConnInv(d)'
  BY DEF SockInv, ConnInv

(* A step of Serve or Close that leaves the connections alone.             *)
LEMMA ServerSteps ==
    ASSUME SockInv, UNCHANGED <<pc, conns, wire, input, answered, misled>>,
           serve' \in {"start", "append", "accept", "ended", "failed", "panic"},
           listening' \in BOOLEAN, done' \in BOOLEAN,
           closer' \in {"idle", "done", "listeners", "returned", "panic"},
           lateServe' \in BOOLEAN, broken' \in BOOLEAN,
           open' \subseteq open, late' = late
    PROVE  /\ TypeOK' /\ \A c \in Conn : ConnInv(c)'
           /\ Registered' /\ NoAnswerAfterClosing' /\ AnswersAreRight'
<1>1. TypeOK'
  BY DEF SockInv, TypeOK, wire
<1>2. \A c \in Conn : ConnInv(c)'
  BY ConnStays DEF wire
<1>3. Registered' /\ NoAnswerAfterClosing' /\ AnswersAreRight'
  BY DEF SockInv, Registered, NoAnswerAfterClosing, AnswersAreRight
<1> QED  BY <1>1, <1>2, <1>3

-----------------------------------------------------------------------------
(* Serve *)

LEMMA AppendKeeps == ASSUME SockInv, Append PROVE SockInv'
<1>1. /\ TypeOK' /\ \A c \in Conn : ConnInv(c)'
      /\ Registered' /\ NoAnswerAfterClosing' /\ AnswersAreRight'
  BY ServerSteps DEF Append, history, SockInv, TypeOK
<1>2. CutOff' /\ Announced' /\ ServeEndsQuietly'
  BY DEF Append, history, SockInv, CutOff, Looked, Announced, ServeEndsQuietly
<1> QED  BY <1>1, <1>2 DEF SockInv

LEMMA AppendedKeeps == ASSUME SockInv, Appended PROVE SockInv'
<1>1. /\ TypeOK' /\ \A c \in Conn : ConnInv(c)'
      /\ Registered' /\ NoAnswerAfterClosing' /\ AnswersAreRight'
  BY ServerSteps DEF Appended, SockInv, TypeOK
<1>2. CutOff' /\ Announced' /\ ServeEndsQuietly'
  BY DEF Appended, SockInv, CutOff, Looked, Announced, ServeEndsQuietly
<1> QED  BY <1>1, <1>2 DEF SockInv

(* Accept fails before Close has announced itself only if the listener is  *)
(* still open, that is by itself.                                          *)
LEMMA AcceptErrorKeeps == ASSUME SockInv, AcceptError PROVE SockInv'
<1>1. /\ TypeOK' /\ \A c \in Conn : ConnInv(c)'
      /\ Registered' /\ NoAnswerAfterClosing' /\ AnswersAreRight'
  BY ServerSteps DEF AcceptError, SockInv, TypeOK
<1>2. CutOff' /\ Announced'
  BY DEF AcceptError, SockInv, CutOff, Looked, Announced
<1>3. ServeEndsQuietly'
  BY DEF AcceptError, SockInv, TypeOK, Announced, ServeEndsQuietly
<1> QED  BY <1>1, <1>2, <1>3 DEF SockInv

-----------------------------------------------------------------------------
(* Close *)

LEMMA CloseBeginKeeps == ASSUME SockInv, CloseBegin PROVE SockInv'
<1>1. /\ TypeOK' /\ \A c \in Conn : ConnInv(c)'
      /\ Registered' /\ NoAnswerAfterClosing' /\ AnswersAreRight'
  BY ServerSteps DEF CloseBegin, history, SockInv, TypeOK
<1>2. CutOff' /\ Announced' /\ ServeEndsQuietly'
  BY DEF CloseBegin, history, SockInv, CutOff, Looked, Announced, ServeEndsQuietly
<1> QED  BY <1>1, <1>2 DEF SockInv

(* What it means for the connections in S to be gone.                      *)
LEMMA Forgotten ==
    ASSUME SockInv, NEW S \in SUBSET Conn, Forget(S)
    PROVE  /\ pc' \in [Conn -> Handling \cup {"none", "queued"}]
           /\ client' \in [Conn -> {"nothing", "gone"} \cup Request \cup Piece]
           /\ asked' \in [Conn -> {"none", "error"} \cup Request]
           /\ input' \in [Conn -> {"none"} \cup Request \cup Piece]
           /\ owed' \subseteq Conn
           /\ \A c \in Conn : ConnInv(c)'
           /\ \A c \in S : pc'[c] = "none"
           /\ \A c \in Conn \ S : pc'[c] = pc[c]
<1>1. \A c \in S : pc'[c] = "none" /\ client'[c] = "nothing" /\ asked'[c] = "none"
                    /\ input'[c] = "none" /\ c \notin owed'
  BY DEF Forget
<1>2. \A c \in Conn \ S : pc'[c] = pc[c] /\ client'[c] = client[c] /\ asked'[c] = asked[c]
                           /\ input'[c] = input[c] /\ (c \in owed' <=> c \in owed)
  BY DEF Forget
<1>3. /\ pc' \in [Conn -> Handling \cup {"none", "queued"}]
      /\ client' \in [Conn -> {"nothing", "gone"} \cup Request \cup Piece]
      /\ asked' \in [Conn -> {"none", "error"} \cup Request]
      /\ input' \in [Conn -> {"none"} \cup Request \cup Piece]
      /\ owed' \subseteq Conn
  BY DEF Forget, SockInv, TypeOK
<1>4. ASSUME NEW c \in Conn  PROVE ConnInv(c)'
  <2>1. CASE c \in S
    BY <1>1, <2>1 DEF ConnInv, Request
  <2>2. CASE c \notin S
    BY <1>2, <2>2, ConnStays
  <2> QED  BY <2>1, <2>2
<1> QED  BY <1>1, <1>2, <1>3, <1>4

LEMMA CloseListenersKeeps == ASSUME SockInv, CloseListeners PROVE SockInv'
<1>1. closer = "done" /\ done /\ UNCHANGED <<done, answered, broken, misled>>
  BY DEF CloseListeners, SockInv, Announced
<1>2. late = {} /\ answered = {}
  BY <1>1 DEF SockInv, CutOff, Looked
<1>3. CASE /\ closer' = "listeners" /\ lateServe' = TRUE
           /\ UNCHANGED <<serve, listening, pc, conns, open, wire, input, late>>
  <2>1. /\ TypeOK' /\ \A c \in Conn : ConnInv(c)'
        /\ Registered' /\ NoAnswerAfterClosing' /\ AnswersAreRight'
    BY <1>1, <1>3, ServerSteps DEF SockInv, TypeOK
  <2>2. CutOff' /\ Announced' /\ ServeEndsQuietly'
    BY <1>1, <1>2, <1>3 DEF SockInv, CutOff, Looked, Announced, ServeEndsQuietly
  <2> QED  BY <2>1, <2>2 DEF SockInv
<1>4. CASE /\ closer' = "listeners" /\ ListenerClosed
           /\ UNCHANGED <<serve, conns, open, late, lateServe>>
  <2> DEFINE S == {c \in Conn : pc[c] = "queued"}
  <2>1. Forget(S) /\ listening' = FALSE
    BY <1>4 DEF ListenerClosed
  <2>2. /\ pc' \in [Conn -> Handling \cup {"none", "queued"}]
        /\ client' \in [Conn -> {"nothing", "gone"} \cup Request \cup Piece]
        /\ asked' \in [Conn -> {"none", "error"} \cup Request]
        /\ input' \in [Conn -> {"none"} \cup Request \cup Piece]
        /\ owed' \subseteq Conn
        /\ \A c \in Conn : ConnInv(c)'
        /\ \A c \in S : pc'[c] = "none"
        /\ \A c \in Conn \ S : pc'[c] = pc[c]
    BY <2>1, Forgotten
  <2>3. \A c \in Conn : pc'[c] \in Handling <=> pc[c] \in Handling
    BY <2>2 DEF Handling
  <2>4. \A c \in Conn : pc'[c] \in Handling => pc'[c] = pc[c]
    BY <2>2 DEF Handling
  <2>5. TypeOK'
    BY <1>1, <1>4, <2>1, <2>2, <2>3, <2>4 DEF SockInv, TypeOK, Handling
  <2>6. Registered'
    BY <1>4, <2>3, <2>4 DEF SockInv, Registered
  <2>7. CutOff' /\ Announced' /\ ServeEndsQuietly' /\ NoAnswerAfterClosing' /\ AnswersAreRight'
    BY <1>1, <1>2, <1>4 DEF SockInv, CutOff, Looked, Announced, ServeEndsQuietly,
       NoAnswerAfterClosing, AnswersAreRight
  <2> QED  BY <2>2, <2>5, <2>6, <2>7 DEF SockInv
<1>5. CASE Panic
  <2>1. /\ closer' = "panic" /\ serve' = "panic" /\ listening' = FALSE /\ Forget(Conn)
        /\ conns' = {} /\ open' = {} /\ late' = {} /\ UNCHANGED lateServe
    BY <1>5 DEF Panic
  <2>2. /\ pc' \in [Conn -> Handling \cup {"none", "queued"}]
        /\ client' \in [Conn -> {"nothing", "gone"} \cup Request \cup Piece]
        /\ asked' \in [Conn -> {"none", "error"} \cup Request]
        /\ input' \in [Conn -> {"none"} \cup Request \cup Piece]
        /\ owed' \subseteq Conn
        /\ \A c \in Conn : ConnInv(c)'
        /\ \A c \in Conn : pc'[c] = "none"
    BY <2>1, Forgotten
  <2>3. TypeOK'
    BY <1>1, <2>1, <2>2 DEF SockInv, TypeOK
  <2>4. Registered'
    BY <2>2 DEF Registered, Handling
  <2>5. CutOff' /\ Announced' /\ ServeEndsQuietly' /\ NoAnswerAfterClosing' /\ AnswersAreRight'
    BY <1>1, <1>2, <2>1 DEF SockInv, CutOff, Looked, Announced, ServeEndsQuietly,
       NoAnswerAfterClosing, AnswersAreRight
  <2> QED  BY <2>2, <2>3, <2>4, <2>5 DEF SockInv
<1> QED  BY <1>3, <1>4, <1>5 DEF CloseListeners

(* Whatever is in the map now is closed.                                   *)
LEMMA CloseConnsKeeps == ASSUME SockInv, CloseConns PROVE SockInv'
<1>1. /\ TypeOK' /\ \A c \in Conn : ConnInv(c)'
      /\ Registered' /\ NoAnswerAfterClosing' /\ AnswersAreRight'
  BY ServerSteps DEF CloseConns, history, SockInv, TypeOK
<1>2. CutOff' /\ Announced' /\ ServeEndsQuietly'
  BY DEF CloseConns, history, SockInv, CutOff, Looked, Announced, ServeEndsQuietly
<1> QED  BY <1>1, <1>2 DEF SockInv

-----------------------------------------------------------------------------
(* The handler of one connection, and its client *)

(* The other connections do not notice.                                    *)
LEMMA AcceptKeeps == ASSUME SockInv, NEW c \in Conn, Accept(c) PROVE SockInv'
<1>1. /\ pc[c] = "queued" /\ pc' = [pc EXCEPT ![c] = "accepted"] /\ open' = open \cup {c}
      /\ UNCHANGED <<server, conns, wire, input, history>>
  BY DEF Accept, GoTo
<1>2. TypeOK'
  BY <1>1 DEF SockInv, TypeOK, server, wire, history, Handling
<1>3. \A d \in Conn : ConnInv(d)'
  <2>1. ConnInv(c)'
    BY <1>1 DEF SockInv, TypeOK, ConnInv, wire
  <2>2. ASSUME NEW d \in Conn \ {c}  PROVE ConnInv(d)'
    BY <1>1, ConnStays DEF wire
  <2> QED  BY <2>1, <2>2
<1>4. Registered' /\ c \notin conns
  BY <1>1 DEF SockInv, TypeOK, Registered, Handling
<1>5. CutOff'
  BY <1>1, <1>4 DEF SockInv, CutOff, Looked, server, history
<1>6. Announced' /\ ServeEndsQuietly' /\ NoAnswerAfterClosing' /\ AnswersAreRight'
  BY <1>1 DEF SockInv, Announced, ServeEndsQuietly, NoAnswerAfterClosing, AnswersAreRight,
     server, history
<1> QED  BY <1>2, <1>3, <1>4, <1>5, <1>6 DEF SockInv

(* Who registers after Close has looked is late.                           *)
LEMMA RegisterKeeps == ASSUME SockInv, NEW c \in Conn, Register(c) PROVE SockInv'
<1>1. /\ pc[c] = "accepted" /\ pc' = [pc EXCEPT ![c] = "read"] /\ conns' = conns \cup {c}
      /\ late' = IF Looked THEN late \cup {c} ELSE late
      /\ UNCHANGED <<server, open, wire, input, lateServe, answered, broken, misled>>
  BY DEF Register, GoTo
<1>2. TypeOK'
  BY <1>1 DEF SockInv, TypeOK, server, wire, Handling
<1>3. \A d \in Conn : ConnInv(d)'
  <2>1. ConnInv(c)'
    BY <1>1 DEF SockInv, TypeOK, ConnInv, wire
  <2>2. ASSUME NEW d \in Conn \ {c}  PROVE ConnInv(d)'
    BY <1>1, ConnStays DEF wire
  <2> QED  BY <2>1, <2>2
<1>4. Registered'
  BY <1>1 DEF SockInv, TypeOK, Registered
<1>5. CutOff'
  BY <1>1 DEF SockInv, CutOff, Looked, server
<1>6. Announced' /\ ServeEndsQuietly' /\ NoAnswerAfterClosing' /\ AnswersAreRight'
  BY <1>1 DEF SockInv, Announced, ServeEndsQuietly, NoAnswerAfterClosing, AnswersAreRight, server
<1> QED  BY <1>2, <1>3, <1>4, <1>5, <1>6 DEF SockInv

(* What the client has sent becomes the input of the handler.              *)
LEMMA ReadKeeps == ASSUME SockInv, NEW c \in Conn, Read(c) PROVE SockInv'
<1>1. /\ pc[c] = "read" /\ client[c] \in Request \cup Piece
      /\ pc' = [pc EXCEPT ![c] = "answer"] /\ client' = [client EXCEPT ![c] = "nothing"]
      /\ input' = [input EXCEPT ![c] = client[c]]
      /\ UNCHANGED <<server, conns, open, asked, owed, history>>
  BY DEF Read, GoTo
<1>2. TypeOK'
  BY <1>1 DEF SockInv, TypeOK, server, history, Handling
<1>3. \A d \in Conn : ConnInv(d)'
  <2>1. ConnInv(c)'
    BY <1>1 DEF SockInv, TypeOK, ConnInv, Request, Piece
  <2>2. ASSUME NEW d \in Conn \ {c}  PROVE ConnInv(d)'
    <3>1. pc'[d] = pc[d] /\ client'[d] = client[d] /\ input'[d] = input[d]
      BY <1>1 DEF SockInv, TypeOK
    <3> QED  BY <1>1, <3>1, ConnStays
  <2> QED  BY <2>1, <2>2
<1>4. Registered'
  BY <1>1 DEF SockInv, TypeOK, Registered, Handling
<1>5. CutOff' /\ Announced'
  BY <1>1 DEF SockInv, CutOff, Looked, Announced, server, history
<1>6. ServeEndsQuietly' /\ NoAnswerAfterClosing' /\ AnswersAreRight'
  BY <1>1 DEF SockInv, ServeEndsQuietly, NoAnswerAfterClosing, AnswersAreRight, server, history
<1> QED  BY <1>2, <1>3, <1>4, <1>5, <1>6 DEF SockInv

LEMMA ReadFailsKeeps == ASSUME SockInv, NEW c \in Conn, ReadFails(c) PROVE SockInv'
<1>1. /\ pc[c] = "read" /\ pc' = [pc EXCEPT ![c] = "leave"]
      /\ UNCHANGED <<server, conns, open, wire, input, history>>
  BY DEF ReadFails, GoTo
<1>2. TypeOK'
  BY <1>1 DEF SockInv, TypeOK, server, wire, history, Handling
<1>3. \A d \in Conn : ConnInv(d)'
  <2>1. ConnInv(c)'
    BY <1>1 DEF SockInv, TypeOK, ConnInv, wire
  <2>2. ASSUME NEW d \in Conn \ {c}  PROVE ConnInv(d)'
    BY <1>1, ConnStays DEF wire
  <2> QED  BY <2>1, <2>2
<1>4. Registered'
  BY <1>1 DEF SockInv, TypeOK, Registered, Handling
<1>5. CutOff' /\ Announced'
  BY <1>1 DEF SockInv, CutOff, Looked, Announced, server, history
<1>6. ServeEndsQuietly' /\ NoAnswerAfterClosing' /\ AnswersAreRight'
  BY <1>1 DEF SockInv, ServeEndsQuietly, NoAnswerAfterClosing, AnswersAreRight, server, history
<1> QED  BY <1>2, <1>3, <1>4, <1>5, <1>6 DEF SockInv

(* The answer belongs to the request that the client waits for, unless it  *)
(* is an error; and a handler that Close could see has no client any more. *)
LEMMA AnswerKeeps == ASSUME SockInv, NEW c \in Conn, Answer(c) PROVE SockInv'
<1>1. PICK works \in BOOLEAN :
         LET reply == Reply(c, works)
             wrong == \/ asked[c] = "list" /\ reply = "NOTFOUND"
                      \/ asked[c] = "other" /\ reply = "OK"
         IN IF c \in open /\ asked[c] \in Request
            THEN /\ asked' = [asked EXCEPT ![c] = IF reply \in {"PERM", "TEMP"} THEN "error" ELSE "none"]
                 /\ misled' = IF wrong THEN misled \cup {c} ELSE misled
            ELSE UNCHANGED <<asked, misled>>
  BY DEF Answer
<1>2. /\ pc[c] = "answer" /\ pc' = [pc EXCEPT ![c] = "read"]
      /\ input' = [input EXCEPT ![c] = "none"]
      /\ answered' = IF Looked /\ c \in open THEN answered \cup {c} ELSE answered
      /\ UNCHANGED <<server, conns, open, client, owed, late, lateServe, broken>>
  BY DEF Answer, GoTo
<1>3. ConnInv(c) /\ input[c] \in Request \cup Piece
  BY <1>2 DEF SockInv, TypeOK, ConnInv
<1>4. /\ Reply(c, works) = "OK" => input[c] = "list"
      /\ Reply(c, works) = "NOTFOUND" => input[c] = "other"
      /\ Reply(c, works) \in {"OK", "NOTFOUND", "PERM", "TEMP"}
  BY <1>3 DEF Reply, Request, Piece
<1>5. misled' = {}
  BY <1>1, <1>3, <1>4 DEF SockInv, AnswersAreRight, ConnInv, Request
<1>6. asked' \in [Conn -> {"none", "error"} \cup Request] /\ \A d \in Conn \ {c} : asked'[d] = asked[d]
  BY <1>1 DEF SockInv, TypeOK
<1>7. asked'[c] = asked[c] \/ asked'[c] = "error" \/ (asked'[c] = "none" /\ input[c] \in Request)
  BY <1>1, <1>4 DEF SockInv, TypeOK, Request
<1>8. TypeOK'
  BY <1>2, <1>5, <1>6 DEF SockInv, TypeOK, server, Handling
<1>9. \A d \in Conn : ConnInv(d)'
  <2>1. ConnInv(c)'
    BY <1>2, <1>3, <1>7 DEF SockInv, TypeOK, ConnInv, Request
  <2>2. ASSUME NEW d \in Conn \ {c}  PROVE ConnInv(d)'
    <3>1. pc'[d] = pc[d] /\ client'[d] = client[d] /\ input'[d] = input[d] /\ asked'[d] = asked[d]
      BY <1>2, <1>6 DEF SockInv, TypeOK
    <3> QED  BY <1>2, <3>1, ConnStays
  <2> QED  BY <2>1, <2>2
<1>10. Registered'
  BY <1>2 DEF SockInv, TypeOK, Registered, Handling
<1>11. c \in conns
  BY <1>2 DEF SockInv, Registered, Handling
<1>12. CutOff' /\ NoAnswerAfterClosing'
  BY <1>2, <1>11 DEF SockInv, CutOff, Looked, NoAnswerAfterClosing, server
<1>13. Announced' /\ ServeEndsQuietly' /\ AnswersAreRight'
  BY <1>2, <1>5 DEF SockInv, Announced, ServeEndsQuietly, AnswersAreRight, server
<1> QED  BY <1>8, <1>9, <1>10, <1>12, <1>13 DEF SockInv

LEMMA CloseConnKeeps == ASSUME SockInv, NEW c \in Conn, CloseConn(c) PROVE SockInv'
<1>1. open' = open \ {c} /\ UNCHANGED <<server, pc, conns, wire, input, history>>
  BY DEF CloseConn
<1>2. /\ TypeOK' /\ \A d \in Conn : ConnInv(d)'
      /\ Registered' /\ NoAnswerAfterClosing' /\ AnswersAreRight'
  BY <1>1, ServerSteps DEF history, server, SockInv, TypeOK
<1>3. CutOff' /\ Announced' /\ ServeEndsQuietly'
  BY <1>1 DEF server, history, SockInv, CutOff, Looked, Announced, ServeEndsQuietly
<1> QED  BY <1>2, <1>3 DEF SockInv

LEMMA UnregisterKeeps == ASSUME SockInv, NEW c \in Conn, Unregister(c) PROVE SockInv'
<1>1. /\ pc[c] = "leave" /\ c \notin open /\ conns' = conns \ {c} /\ Forget({c})
      /\ late' = late \ {c} /\ answered' = answered \ {c}
      /\ UNCHANGED <<server, open, lateServe, broken, misled>>
  BY DEF Unregister
<1>2. /\ pc' \in [Conn -> Handling \cup {"none", "queued"}]
      /\ client' \in [Conn -> {"nothing", "gone"} \cup Request \cup Piece]
      /\ asked' \in [Conn -> {"none", "error"} \cup Request]
      /\ input' \in [Conn -> {"none"} \cup Request \cup Piece]
      /\ owed' \subseteq Conn
      /\ \A d \in Conn : ConnInv(d)'
      /\ pc'[c] = "none"
      /\ \A d \in Conn \ {c} : pc'[d] = pc[d]
  BY <1>1, Forgotten
<1>3. TypeOK'
  BY <1>1, <1>2 DEF SockInv, TypeOK, server
<1>4. Registered'
  BY <1>1, <1>2 DEF SockInv, Registered, Handling
<1>5. CutOff' /\ NoAnswerAfterClosing'
  BY <1>1 DEF SockInv, CutOff, Looked, NoAnswerAfterClosing, server
<1>6. Announced' /\ ServeEndsQuietly' /\ AnswersAreRight'
  BY <1>1 DEF SockInv, Announced, ServeEndsQuietly, AnswersAreRight, server
<1> QED  BY <1>2, <1>3, <1>4, <1>5, <1>6 DEF SockInv

LEMMA ConnectKeeps == ASSUME SockInv, NEW c \in Conn, Connect(c) PROVE SockInv'
<1>1. /\ pc[c] = "none" /\ pc' = [pc EXCEPT ![c] = "queued"] /\ misled' = misled \ {c}
      /\ UNCHANGED <<server, conns, open, wire, input, late, lateServe, answered, broken>>
  BY DEF Connect, GoTo
<1>2. TypeOK'
  BY <1>1 DEF SockInv, TypeOK, server, wire, Handling
<1>3. \A d \in Conn : ConnInv(d)'
  <2>1. ConnInv(c)'
    BY <1>1 DEF SockInv, TypeOK, ConnInv, wire
  <2>2. ASSUME NEW d \in Conn \ {c}  PROVE ConnInv(d)'
    BY <1>1, ConnStays DEF wire
  <2> QED  BY <2>1, <2>2
<1>4. Registered'
  BY <1>1 DEF SockInv, TypeOK, Registered, Handling
<1>5. CutOff' /\ Announced'
  BY <1>1 DEF SockInv, CutOff, Looked, Announced, server
<1>6. ServeEndsQuietly' /\ NoAnswerAfterClosing' /\ AnswersAreRight'
  BY <1>1 DEF SockInv, ServeEndsQuietly, NoAnswerAfterClosing, AnswersAreRight, server
<1> QED  BY <1>2, <1>3, <1>4, <1>5, <1>6 DEF SockInv

(* What a client does reaches nothing but its own side of the connection.  *)
LEMMA ClientSteps ==
    ASSUME SockInv, NEW c \in Conn, ConnInv(c)',
           UNCHANGED <<server, pc, conns, open, input, history>>,
           \A d \in Conn \ {c} : client'[d] = client[d] /\ asked'[d] = asked[d] /\ (d \in owed' <=> d \in owed),
           client' \in [Conn -> {"nothing", "gone"} \cup Request \cup Piece],
           asked' \in [Conn -> {"none", "error"} \cup Request],
           owed' \subseteq Conn
    PROVE  SockInv'
<1>1. TypeOK'
  BY DEF SockInv, TypeOK, server, history
<1>2. \A d \in Conn : ConnInv(d)'
  BY ConnStays
<1>3. Registered' /\ CutOff' /\ Announced'
  BY DEF SockInv, Registered, CutOff, Looked, Announced, server, history
<1>4. ServeEndsQuietly' /\ NoAnswerAfterClosing' /\ AnswersAreRight'
  BY DEF SockInv, ServeEndsQuietly, NoAnswerAfterClosing, AnswersAreRight, server, history
<1> QED  BY <1>1, <1>2, <1>3, <1>4 DEF SockInv

LEMMA SendKeeps == ASSUME SockInv, NEW c \in Conn, Send(c) PROVE SockInv'
<1>1. client[c] = "nothing" /\ asked[c] = "none" /\ UNCHANGED <<server, pc, conns, open, input, history>>
  BY DEF Send
<1>2. PICK q \in Request :
         /\ asked' = [asked EXCEPT ![c] = q]
         /\ \/ client' = [client EXCEPT ![c] = q] /\ UNCHANGED owed
            \/ client' = [client EXCEPT ![c] = "first"] /\ owed' = owed \cup {c}
  BY DEF Send
<1>3. \A d \in Conn \ {c} : client'[d] = client[d] /\ asked'[d] = asked[d] /\ (d \in owed' <=> d \in owed)
  BY <1>2 DEF SockInv, TypeOK
<1>4. /\ client' \in [Conn -> {"nothing", "gone"} \cup Request \cup Piece]
      /\ asked' \in [Conn -> {"none", "error"} \cup Request] /\ owed' \subseteq Conn
  BY <1>2 DEF SockInv, TypeOK, Piece
<1>5. ConnInv(c)'
  BY <1>1, <1>2 DEF SockInv, TypeOK, ConnInv, Request
<1> QED  BY <1>1, <1>3, <1>4, <1>5, ClientSteps

LEMMA SendRestKeeps == ASSUME SockInv, NEW c \in Conn, SendRest(c) PROVE SockInv'
<1>1. /\ c \in owed /\ owed' = owed \ {c}
      /\ client' = [client EXCEPT ![c] = IF @ = "first" THEN asked[c] ELSE "rest"]
      /\ UNCHANGED <<server, pc, conns, open, asked, input, history>>
  BY DEF SendRest
<1>2. ConnInv(c)
  BY DEF SockInv
<1>3. \A d \in Conn \ {c} : client'[d] = client[d] /\ asked'[d] = asked[d] /\ (d \in owed' <=> d \in owed)
  BY <1>1 DEF SockInv, TypeOK
<1>4. /\ client' \in [Conn -> {"nothing", "gone"} \cup Request \cup Piece]
      /\ asked' \in [Conn -> {"none", "error"} \cup Request] /\ owed' \subseteq Conn
  BY <1>1, <1>2 DEF SockInv, TypeOK, Piece, ConnInv
<1>5. ConnInv(c)'
  BY <1>1, <1>2 DEF SockInv, TypeOK, ConnInv, Request
<1> QED  BY <1>1, <1>3, <1>4, <1>5, ClientSteps

LEMMA HangUpKeeps == ASSUME SockInv, NEW c \in Conn, HangUp(c) PROVE SockInv'
<1>1. /\ client' = [client EXCEPT ![c] = "gone"] /\ owed' = owed \ {c}
      /\ UNCHANGED <<server, pc, conns, open, asked, input, history>>
  BY DEF HangUp
<1>2. ConnInv(c)
  BY DEF SockInv
<1>3. \A d \in Conn \ {c} : client'[d] = client[d] /\ asked'[d] = asked[d] /\ (d \in owed' <=> d \in owed)
  BY <1>1 DEF SockInv, TypeOK
<1>4. /\ client' \in [Conn -> {"nothing", "gone"} \cup Request \cup Piece]
      /\ asked' \in [Conn -> {"none", "error"} \cup Request] /\ owed' \subseteq Conn
  BY <1>1 DEF SockInv, TypeOK
<1>5. ConnInv(c)'
  BY <1>1, <1>2 DEF SockInv, TypeOK, ConnInv, Request
<1> QED  BY <1>1, <1>3, <1>4, <1>5, ClientSteps

LEMMA SockStutter == ASSUME SockInv, UNCHANGED vars PROVE SockInv'
<1>1. /\ TypeOK' /\ \A d \in Conn : ConnInv(d)'
      /\ Registered' /\ NoAnswerAfterClosing' /\ AnswersAreRight'
  BY ServerSteps DEF vars, history, server, SockInv, TypeOK
<1>2. CutOff' /\ Announced' /\ ServeEndsQuietly'
  BY DEF vars, server, history, SockInv, CutOff, Looked, Announced, ServeEndsQuietly
<1> QED  BY <1>1, <1>2 DEF SockInv

-----------------------------------------------------------------------------
LEMMA SockInvariant == Spec => []SockInv
<1>1. Init => SockInv
  BY SockInit
<1>2. SockInv /\ [Next]_vars => SockInv'
  <2> SUFFICES ASSUME SockInv, [Next]_vars
               PROVE  SockInv'
    OBVIOUS
  <2>1. CASE Append \/ Appended \/ AcceptError
    BY <2>1, AppendKeeps, AppendedKeeps, AcceptErrorKeeps
  <2>2. CASE CloseBegin \/ CloseListeners \/ CloseConns
    BY <2>2, CloseBeginKeeps, CloseListenersKeeps, CloseConnsKeeps
  <2>3. ASSUME NEW c \in Conn, Accept(c) \/ Handle(c)  PROVE SockInv'
    BY <2>3, AcceptKeeps, RegisterKeeps, ReadKeeps, ReadFailsKeeps, AnswerKeeps,
       CloseConnKeeps, UnregisterKeeps DEF Handle
  <2>4. ASSUME NEW c \in Conn, Connect(c) \/ Send(c) \/ SendRest(c) \/ HangUp(c)  PROVE SockInv'
    BY <2>4, ConnectKeeps, SendKeeps, SendRestKeeps, HangUpKeeps
  <2>5. CASE UNCHANGED vars
    BY <2>5, SockStutter
  <2> QED  BY <2>1, <2>2, <2>3, <2>4, <2>5 DEF Next
<1> QED  BY <1>1, <1>2, PTL DEF Spec

(* Every variable keeps its type; the map and the late connections have    *)
(* only connections whose handler has registered.                          *)
THEOREM SockmapTypeCorrect == Spec => []TypeOK
<1>1. SockInv => TypeOK
  BY DEF SockInv
<1> QED  BY <1>1, SockInvariant, PTL

(* Serve returns an error only if Accept failed by itself: Close makes     *)
(* Accept fail, too, but has closed the channel done before.               *)
THEOREM EndsQuietly == Spec => []ServeEndsQuietly
<1>1. SockInv => ServeEndsQuietly
  BY DEF SockInv
<1> QED  BY <1>1, SockInvariant, PTL

(* After Close, whatever handler is at whatever point, nobody gets an      *)
(* answer on a connection that Close saw in the map.                       *)
THEOREM ClosedMeansSilent == Spec => []NoAnswerAfterClosing
<1>1. SockInv => NoAnswerAfterClosing
  BY DEF SockInv
<1> QED  BY <1>1, SockInvariant, PTL

(* No client takes an answer that is wrong for its request, also when the  *)
(* request came in pieces that handleConn took for two requests.           *)
THEOREM RightAnswers == Spec => []AnswersAreRight
<1>1. SockInv => AnswersAreRight
  BY DEF SockInv
<1> QED  BY <1>1, SockInvariant, PTL
=============================================================================
