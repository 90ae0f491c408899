------------------------------- MODULE Sockmap -------------------------------
(***************************************************************************)
(* The socketmap server: Serve accepts connections and starts handleConn   *)
(* for each, Close ends them.  They share the list of listeners and the    *)
(* map of connections under a lock, which Close does not take to read the  *)
(* listeners, and the channel done.                                        *)
(*                                                                         *)
(* Clients are postmap and Postfix: they wait for an answer before they    *)
(* send the next request, take an error for the end of the lookup, and     *)
(* hang up when they want.  A request may come in two pieces: handleConn   *)
(* takes what one Read returns for a request.                              *)
(***************************************************************************)
EXTENDS Naturals

CONSTANTS Conn      \* connections; a closed one can be opened again

VARIABLES
    serve,      \* how far Serve is: it ends with or without an error
    listening,  \* the listener is open
    done,       \* the channel done is closed
    closer,     \* how far Close is
    pc,         \* how far handleConn is; "queued": not yet accepted
    conns,      \* the map of connections
    open,       \* connections that this side has not closed
    client,     \* what the client has sent and nobody has read
    asked,      \* the request whose answer the client waits for
    owed,       \* connections on which the second piece of a request is still to come
    input,      \* what handleConn has read and not yet answered
    late,       \* history: connections registered after Close looked at the map
    lateServe,  \* history: Serve registered its listener after Close looked
    answered,   \* history: connections answered after Close had returned
    broken,     \* history: Accept failed by itself
    misled      \* history: clients that took an answer which is wrong for their request

server  == <<serve, listening, done, closer>>
wire    == <<client, asked, owed>>
history == <<late, lateServe, answered, broken, misled>>
vars    == <<server, pc, conns, open, wire, input, history>>

Handling == {"accepted", "read", "answer", "leave"}

(* An address for which Exists returns true, and any other, "*" included.  *)
Request == {"list", "other"}
Piece   == {"first", "rest"}

Init ==
    /\ serve = "start" /\ listening = TRUE /\ done = FALSE /\ closer = "idle"
    /\ pc = [c \in Conn |-> "none"] /\ conns = {} /\ open = {}
    /\ client = [c \in Conn |-> "nothing"] /\ asked = [c \in Conn |-> "none"] /\ owed = {}
    /\ input = [c \in Conn |-> "none"]
    /\ late = {} /\ lateServe = FALSE /\ answered = {} /\ broken = FALSE /\ misled = {}

GoTo(c, s) == pc' = [pc EXCEPT ![c] = s]

(* The connections in S are gone, and the clients with them.               *)
Forget(S) ==
    /\ pc' = [c \in Conn |-> IF c \in S THEN "none" ELSE pc[c]]
    /\ client' = [c \in Conn |-> IF c \in S THEN "nothing" ELSE client[c]]
    /\ asked' = [c \in Conn |-> IF c \in S THEN "none" ELSE asked[c]]
    /\ input' = [c \in Conn |-> IF c \in S THEN "none" ELSE input[c]]
    /\ owed' = owed \ S

Looked == closer = "returned"

-----------------------------------------------------------------------------
(* Serve *)

(* The append to listeners is not atomic for Close, which reads without    *)
(* the lock.                                                               *)
Append ==
    /\ serve = "start" /\ serve' = "append"
    /\ UNCHANGED <<listening, done, closer, pc, conns, open, wire, input, history>>

Appended ==
    /\ serve = "append" /\ serve' = "accept"
    /\ lateServe' = (lateServe \/ closer \notin {"idle", "done"})
    /\ UNCHANGED <<listening, done, closer, pc, conns, open, wire, input, late, answered, broken, misled>>

Accept(c) ==
    /\ serve = "accept" /\ listening /\ pc[c] = "queued"
    /\ GoTo(c, "accepted") /\ open' = open \cup {c}
    /\ UNCHANGED <<server, conns, wire, input, history>>

(* Accept fails if the listener is closed, or for a reason of its own, for *)
(* example too many open files.                                            *)
AcceptError ==
    /\ serve = "accept"
    /\ serve' = IF done THEN "ended" ELSE "failed"
    /\ broken' = (broken \/ listening)
    /\ UNCHANGED <<listening, done, closer, pc, conns, open, wire, input, late, lateServe, answered, misled>>

-----------------------------------------------------------------------------
(* handleConn *)

Register(c) ==
    /\ pc[c] = "accepted" /\ GoTo(c, "read")
    /\ conns' = conns \cup {c}
    /\ late' = IF Looked THEN late \cup {c} ELSE late
    /\ UNCHANGED <<server, open, wire, input, lateServe, answered, broken, misled>>

Read(c) ==
    /\ pc[c] = "read" /\ c \in open /\ client[c] \in Request \cup Piece
    /\ GoTo(c, "answer") /\ client' = [client EXCEPT ![c] = "nothing"]
    /\ input' = [input EXCEPT ![c] = client[c]]
    /\ UNCHANGED <<server, conns, open, asked, owed, history>>

(* Mutant: no deadline.                                                    *)
ReadFailsWithoutDeadline(c) ==
    /\ pc[c] = "read"
    /\ c \notin open \/ client[c] = "gone"
    /\ GoTo(c, "leave")
    /\ UNCHANGED <<server, conns, open, wire, input, history>>

(* End of file, a connection that Close has closed, and the deadline.      *)
ReadFails(c) ==
    /\ pc[c] = "read"
    /\ c \notin open \/ client[c] \in {"nothing", "gone"}
    /\ GoTo(c, "leave")
    /\ UNCHANGED <<server, conns, open, wire, input, history>>

(* Mutant: the error of Exists is not looked at.                           *)
ReplyUnchecked(c, works) ==
    IF input[c] \in Piece THEN "PERM"
    ELSE IF input[c] = "list" /\ works THEN "OK" ELSE "NOTFOUND"

(* netstring.Decode refuses a piece, as its length is not the one given.   *)
(* Exists, a query, may fail.                                              *)
Reply(c, works) ==
    IF input[c] \in Piece THEN "PERM"
    ELSE IF ~works THEN "TEMP"
    ELSE IF input[c] = "list" THEN "OK" ELSE "NOTFOUND"

(* An error of Write is ignored: the next Read fails as well.              *)
Answer(c) ==
    \E works \in BOOLEAN :
       LET reply == Reply(c, works)
           wrong == \/ asked[c] = "list" /\ reply = "NOTFOUND"
                    \/ asked[c] = "other" /\ reply = "OK"
       IN
       /\ pc[c] = "answer" /\ GoTo(c, "read")
       /\ input' = [input EXCEPT ![c] = "none"]
       /\ answered' = IF Looked /\ c \in open THEN answered \cup {c} ELSE answered
       /\ IF c \in open /\ asked[c] \in Request
          THEN /\ asked' = [asked EXCEPT ![c] = IF reply \in {"PERM", "TEMP"} THEN "error" ELSE "none"]
               /\ misled' = IF wrong THEN misled \cup {c} ELSE misled
          ELSE UNCHANGED <<asked, misled>>
       /\ UNCHANGED <<server, conns, open, client, owed, late, lateServe, broken>>

(* The deferred function, in two steps.                                    *)
CloseConn(c) ==
    /\ pc[c] = "leave" /\ c \in open
    /\ open' = open \ {c}
    /\ UNCHANGED <<server, pc, conns, wire, input, history>>

(* Mutant: the map keeps the connection.                                   *)
Keep(c) ==
    /\ pc[c] = "leave" /\ c \notin open
    /\ Forget({c})
    /\ late' = late \ {c} /\ answered' = answered \ {c}
    /\ UNCHANGED <<server, conns, open, lateServe, broken, misled>>

Unregister(c) ==
    /\ pc[c] = "leave" /\ c \notin open
    /\ conns' = conns \ {c}
    /\ Forget({c})
    /\ late' = late \ {c} /\ answered' = answered \ {c}
    /\ UNCHANGED <<server, open, lateServe, broken, misled>>

-----------------------------------------------------------------------------
(* Close, which ListenAndServe defers before it starts Serve *)

(* Mutant: done is not closed.                                             *)
CloseBeginSilently ==
    /\ closer = "idle" /\ closer' = "done"
    /\ UNCHANGED <<serve, listening, done, pc, conns, open, wire, input, history>>

CloseBegin ==
    /\ closer = "idle" /\ closer' = "done" /\ done' = TRUE
    /\ UNCHANGED <<serve, listening, pc, conns, open, wire, input, history>>

(* Connections nobody has accepted are reset with the listener.            *)
ListenerClosed ==
    listening' = FALSE /\ Forget({c \in Conn : pc[c] = "queued"})

(* The process is gone, and everything with it.                            *)
Panic ==
    /\ closer' = "panic" /\ serve' = "panic" /\ listening' = FALSE
    /\ Forget(Conn)
    /\ conns' = {} /\ open' = {} /\ late' = {}
    /\ UNCHANGED lateServe

(* Mutant: the listeners are left to the operating system.                 *)
CloseNoListener ==
    /\ closer = "done" /\ closer' = "listeners"
    /\ UNCHANGED <<serve, listening, done, pc, conns, open, wire, input, history>>

(* What Close sees while Serve appends the listener: nothing, the new      *)
(* slice, or the length of the new one with the pointer of the old one.    *)
CloseListeners ==
    /\ closer = "done"
    /\ \/ /\ serve \in {"start", "append"}
          /\ closer' = "listeners" /\ lateServe' = TRUE
          /\ UNCHANGED <<serve, listening, pc, conns, open, wire, input, late>>
       \/ /\ serve # "start"
          /\ closer' = "listeners" /\ ListenerClosed
          /\ UNCHANGED <<serve, conns, open, late, lateServe>>
       \/ serve = "append" /\ Panic
    /\ UNCHANGED <<done, answered, broken, misled>>

(* Mutant: only connections that are waiting for a request are closed.     *)
CloseIdleConns ==
    /\ closer = "listeners" /\ closer' = "returned"
    /\ open' = open \ {c \in conns : pc[c] = "read"}
    /\ UNCHANGED <<serve, listening, done, pc, conns, wire, input, history>>

CloseConns ==
    /\ closer = "listeners" /\ closer' = "returned"
    /\ open' = open \ conns
    /\ UNCHANGED <<serve, listening, done, pc, conns, wire, input, history>>

-----------------------------------------------------------------------------
(* Clients *)

Connect(c) ==
    /\ listening /\ pc[c] = "none" /\ GoTo(c, "queued")
    /\ misled' = misled \ {c}
    /\ UNCHANGED <<server, conns, open, wire, input, late, lateServe, answered, broken>>

Reachable(c) == pc[c] \in {"queued", "accepted", "read", "answer"}

Send(c) ==
    /\ Reachable(c) /\ client[c] = "nothing" /\ asked[c] = "none"
    /\ \E q \in Request :
          /\ asked' = [asked EXCEPT ![c] = q]
          /\ \/ client' = [client EXCEPT ![c] = q] /\ UNCHANGED owed
             \/ client' = [client EXCEPT ![c] = "first"] /\ owed' = owed \cup {c}
    /\ UNCHANGED <<server, pc, conns, open, input, history>>

(* The pieces are one again if the first has not been read yet.            *)
SendRest(c) ==
    /\ Reachable(c) /\ c \in owed /\ owed' = owed \ {c}
    /\ client' = [client EXCEPT ![c] = IF @ = "first" THEN asked[c] ELSE "rest"]
    /\ UNCHANGED <<server, pc, conns, open, asked, input, history>>

HangUp(c) ==
    /\ Reachable(c) /\ client[c] = "nothing"
    /\ client' = [client EXCEPT ![c] = "gone"] /\ owed' = owed \ {c}
    /\ UNCHANGED <<server, pc, conns, open, asked, input, history>>

-----------------------------------------------------------------------------
Handle(c) ==
    \/ Register(c) \/ Read(c) \/ ReadFails(c) \/ Answer(c) \/ CloseConn(c) \/ Unregister(c)

Next ==
    \/ Append \/ Appended \/ AcceptError
    \/ CloseBegin \/ CloseListeners \/ CloseConns
    \/ \E c \in Conn : \/ Accept(c) \/ Handle(c)
                       \/ Connect(c) \/ Send(c) \/ SendRest(c) \/ HangUp(c)

Spec == Init /\ [][Next]_vars

(* Goroutines run on.  AcceptError is fair only once Accept cannot succeed *)
(* any more.                                                               *)
FairSpec ==
    /\ Spec
    /\ WF_vars(Append) /\ WF_vars(Appended)
    /\ WF_vars(~listening /\ AcceptError)
    /\ WF_vars(CloseListeners) /\ WF_vars(CloseConns)
    /\ \A c \in Conn : WF_vars(Handle(c))

-----------------------------------------------------------------------------
(* Type invariant.                                                         *)
TypeOK ==
    /\ serve \in {"start", "append", "accept", "ended", "failed", "panic"}
    /\ listening \in BOOLEAN /\ done \in BOOLEAN
    /\ closer \in {"idle", "done", "listeners", "returned", "panic"}
    /\ pc \in [Conn -> Handling \cup {"none", "queued"}]
    /\ conns \subseteq {c \in Conn : pc[c] \in Handling \ {"accepted"}}
    /\ open \subseteq {c \in Conn : pc[c] \in Handling}
    /\ client \in [Conn -> {"nothing", "gone"} \cup Request \cup Piece]
    /\ asked \in [Conn -> {"none", "error"} \cup Request]
    /\ owed \subseteq Conn /\ misled \subseteq Conn
    /\ input \in [Conn -> {"none"} \cup Request \cup Piece]
    /\ late \subseteq conns /\ answered \subseteq Conn
    /\ lateServe \in BOOLEAN /\ broken \in BOOLEAN

(* Serve takes the error of Accept after Close for the end of its work.    *)
(* Only if Accept failed by itself does it return an error, which shuts    *)
(* the program down.                                                       *)
ServeEndsQuietly == serve = "failed" => broken

(* Once Close has returned, no connection that was registered when it      *)
(* looked at them gets an answer any more, not even to a request that had  *)
(* already been read.                                                      *)
NoAnswerAfterClosing == answered \subseteq late

(* A lookup gets no answer that is wrong for it: a list is never reported  *)
(* as not found, which would bounce its mail, and no other address as a    *)
(* list, also when the request came in pieces and got two answers, when    *)
(* the query failed, and when Close cut in.                                *)
AnswersAreRight == misled = {}

(* After Close has returned, Serve and all handlers of registered          *)
(* connections end, whatever the clients do.                               *)
CloseEndsServing ==
    /\ \A c \in Conn : (closer = "returned" /\ c \in conns \ late) ~> c \notin conns \ late
    /\ (closer = "returned" /\ ~lateServe) ~> serve \in {"ended", "failed"}

(* A client that falls silent does not occupy its connection: it sends     *)
(* something, or the deadline of ten seconds ends the handler.             *)
SilentClientsLeave ==
    \A c \in Conn : (pc[c] = "read" /\ client[c] = "nothing")
                      ~> (pc[c] # "read" \/ client[c] # "nothing")
=============================================================================
