------------------------------- MODULE P9Client ------------------------------
(***************************************************************************)
(* P9Client of libs/planten_9p/src/lib.rs at one end of a connection and a *)
(* server of this repository at the other.  Every call of the client sends *)
(* one request and blocks until one reply has come; there is no timeout    *)
(* and no way back to a stream that is out of step.                        *)
(*                                                                         *)
(* What may go wrong: the server closes the connection, or sends the last  *)
(* reply that it has sent once more.                                       *)
(***************************************************************************)
EXTENDS P9Codec

CONSTANTS
  Asks,          \* bound: what may be asked in the first call of a connection, in the second,
                 \* and so on; a request is a type and the values of its fields
  Answers,       \* what a server may answer to each type, other than Rerror
  TagModulus,    \* 2^16
  MaxStrays      \* bound: replies that are sent once more

Requests == UNION {Asks[n] : n \in 1..Len(Asks)}

ASSUME ClientAssumption ==
  /\ TagModulus \in Nat \ {0}
  /\ MaxStrays \in Nat /\ MaxStrays < TagModulus
  /\ Asks \in Seq(SUBSET Requests)
  /\ \A req \in Requests : /\ req.type \in DOMAIN RequestFormat \cap DOMAIN Answers
                            /\ Fit(RequestFormat[req.type], req.values)
  /\ \A type \in DOMAIN Answers : /\ type \in DOMAIN ReplyFormat
                                  /\ \A values \in Answers[type] : Fit(ReplyFormat[type], values)

VARIABLES
  next_tag,    \* the tag of the next request
  pc,          \* "idle", or "waiting" in send_and_wait
  toServer,    \* requests in the stream
  toClient,    \* replies in the stream
  up,          \* the server's end of the connection is open
  strays,      \* replies that have been sent once more
  log          \* history: every call, what became of it at the server, how it ended

vars == <<next_tag, pc, toServer, toClient, up, strays, log>>

Init ==
  /\ next_tag = 0
  /\ pc = "idle"
  /\ toServer = << >> /\ toClient = << >>
  /\ up = TRUE
  /\ strays = 0
  /\ log = << >>

This == Len(log)    \* the call at hand, or the last one

\* what the other end reads of a body
Read(format, values) == Decode(format, Encode(format, values))

RequestRead == [req \in Requests |-> Read(RequestFormat[req.type], req.values)]

\* what a server has read of a body when it may answer Rerror, where that is less than all of
\* it: proc, srv, dev and net read nothing of a message they do not know, and ramfs nothing
\* behind a fid it does not know, the stat that it cannot read, or a name that is not there
RefusalFormat == [
  Tauth   |-> << >>,
  Twalk   |-> <<"number", "number", "number", "string">>,
  Tcreate |-> << >>,
  Twrite  |-> << >>,
  Tremove |-> << >>,
  Twstat  |-> << >>,
  Tflush  |-> << >>]

Refusable == [req \in Requests |->
  /\ req.type \in DOMAIN RefusalFormat
  /\ Decode(RefusalFormat[req.type], Encode(RequestFormat[req.type], req.values)).ok]

AnswerRead == [type \in DOMAIN Answers |-> [values \in Answers[type] |-> Read(ReplyFormat[type], values)]]

(***************************************************************************)
(* The client.  Each method encodes its arguments and hands them to        *)
(* send_and_wait, which takes the next tag and writes the frame.  A frame  *)
(* stands in the stream with what the other end will read of its body.     *)
(***************************************************************************)
\* (faulty: no wrapping_add)
UnwrappedTag(tag) == tag + 1

NextTag(tag) == (tag + 1) % TagModulus

Call(req) ==
  /\ pc = "idle"
  /\ toServer' = IF ~up THEN toServer
                 ELSE Append(toServer, [type |-> req.type, tag |-> next_tag, call |-> This + 1,
                                        read |-> RequestRead[req], refusable |-> Refusable[req],
                                        clean |-> AllCounted(RequestFormat[req.type], req.values)])
  /\ next_tag' = NextTag(next_tag)
  /\ pc' = "waiting"
  /\ log' = Append(log, [req |-> req, done |-> << >>, out |-> "open", value |-> << >>])
  /\ UNCHANGED <<toClient, up, strays>>

MyTag == (next_tag + TagModulus - 1) % TagModulus

Ends(out, value) ==
  /\ log' = [log EXCEPT ![This] = [@ EXCEPT !.out = out, !.value = value]]
  /\ pc' = "idle"

\* version refuses an msize of 0
Refused(type, values) == type = "Tversion" /\ values[1] < 1

\* ensure_msg_type and what the method decodes of the body; a string that took its end from
\* a length that was cut may not be UTF-8
Accept(reply) ==
  LET type == log[This].req.type
  IN  IF reply.type # type \/ ~reply.read.ok \/ Refused(type, reply.read.got) THEN Ends("failed", << >>)
      ELSE Ends("ok", reply.read.got) \/ (~reply.clean /\ Ends("failed", << >>))

\* (faulty: the tag of the reply is not looked at)
ReceiveAnyTag ==
  /\ pc = "waiting" /\ toClient # << >>
  /\ toClient' = Tail(toClient)
  /\ Accept(Head(toClient))
  /\ UNCHANGED <<next_tag, toServer, up, strays>>

\* (faulty: the tag of a call that failed is used again)
ReceiveTakesTagBack ==
  /\ pc = "waiting" /\ toClient # << >>
  /\ toClient' = Tail(toClient)
  /\ IF Head(toClient).tag # MyTag
     THEN Ends("mismatched", << >>) /\ next_tag' = MyTag
     ELSE Accept(Head(toClient)) /\ UNCHANGED next_tag
  /\ UNCHANGED <<toServer, up, strays>>

\* the reply is off the stream whether it fits or not
Receive ==
  /\ pc = "waiting" /\ toClient # << >>
  /\ toClient' = Tail(toClient)
  /\ IF Head(toClient).tag # MyTag THEN Ends("mismatched", << >>) ELSE Accept(Head(toClient))
  /\ UNCHANGED <<next_tag, toServer, up, strays>>

\* (faulty: a stream that has ended is read once more)
EndIgnored == pc = "waiting" /\ toClient = << >> /\ ~up /\ UNCHANGED vars

\* the write or read_exact fails
EndOfStream ==
  /\ pc = "waiting" /\ toClient = << >> /\ ~up
  /\ Ends("failed", << >>)
  /\ UNCHANGED <<next_tag, toServer, toClient, up, strays>>

(***************************************************************************)
(* The server: handle_client takes a frame, decodes its body, works and    *)
(* answers under the tag of the request.                                   *)
(***************************************************************************)
ErrorAnswer == [error |-> TRUE, values |-> << >>]
OkAnswers(type) == {[error |-> FALSE, values |-> v] : v \in Answers[type]}
AnswersTo(type) == OkAnswers(type) \cup {ErrorAnswer}

Reply(type, tag, call, answer) ==
  IF answer.error
  THEN [type |-> "Rerror", tag |-> tag, call |-> call, read |-> Cursor(<< >>), clean |-> TRUE]
  ELSE [type |-> type, tag |-> tag, call |-> call, read |-> AnswerRead[type][answer.values],
        clean |-> AllCounted(ReplyFormat[type], answer.values)]

Close ==
  /\ up' = FALSE
  /\ toServer' = << >>
  /\ toClient' \in {toClient, << >>}     \* a reset takes along what has not been read
  /\ UNCHANGED <<next_tag, pc, strays, log>>

Respond(understood, answer) ==
  LET request == Head(toServer)
  IN  /\ log' = [log EXCEPT ![request.call] = [log[request.call] EXCEPT !.done =
                    Append(@, [understood |-> understood, answer |-> answer])]]
      /\ toClient' = Append(toClient, Reply(request.type, request.tag, request.call, answer))
      /\ toServer' = Tail(toServer)
      /\ UNCHANGED <<next_tag, pc, up, strays>>

\* a body that can be decoded is worked on
Serve ==
  /\ up /\ toServer # << >> /\ Head(toServer).read.ok
  /\ \E answer \in AnswersTo(Head(toServer).type) : Respond(Head(toServer).read.got, answer)

\* Rerror to a request that was not read to its end, or whose stat could not be read
Refuse == up /\ toServer # << >> /\ Head(toServer).refusable /\ Respond(<< >>, ErrorAnswer)

\* ramfs answers a Tauth and a Tflush whatever their bodies are
NeverRead == {"Tauth", "Tflush"}

Acknowledge ==
  /\ up /\ toServer # << >> /\ Head(toServer).type \in NeverRead
  /\ \E answer \in OkAnswers(Head(toServer).type) : Respond(<< >>, answer)

\* A body that ends too early, or a string in it that is not UTF-8, ends the connection; but
\* no server gets so far with a Tauth, Tflush or Twstat.
Drop ==
  /\ up /\ toServer # << >> /\ ~(Head(toServer).read.ok /\ Head(toServer).clean)
  /\ Head(toServer).type \notin NeverRead \cup {"Twstat"}
  /\ Close

\* the last call served, while the connection lives: requests are served in order
Served == This - Len(toServer)

\* fault of the server: the last reply goes out once more
SendAgain ==
  /\ up /\ strays < MaxStrays /\ Served > 0
  /\ toClient' = Append(toClient,
       Reply(log[Served].req.type, (next_tag + TagModulus - 1 - Len(toServer)) % TagModulus, Served, log[Served].done[1].answer))
  /\ strays' = strays + 1
  /\ UNCHANGED <<next_tag, pc, toServer, up, log>>

\* a panic, or the end of the server
HangUp == up /\ Close

Next ==
  \/ This < Len(Asks) /\ \E req \in Asks[This + 1] : Call(req)
  \/ Receive \/ EndOfStream
  \/ Serve \/ Refuse \/ Acknowledge \/ Drop
  \/ SendAgain \/ HangUp

Spec == Init /\ [][Next]_vars

\* The client's thread is scheduled.  A server owes nothing: its handler may wait for a mutex,
\* or the connection in a backlog, for ever.
Fairness == WF_vars(Receive) /\ WF_vars(EndOfStream)

LiveSpec == Spec /\ Fairness

-----------------------------------------------------------------------------
\* What each variable holds.  The client waits exactly while its last call is open; and as
\* long as the connection lives it is behind by as many replies as were sent once more.
TypeOK ==
  /\ next_tag \in 0..(TagModulus - 1)
  /\ pc = IF log # << >> /\ log[This].out = "open" THEN "waiting" ELSE "idle"
  /\ up \in BOOLEAN /\ strays \in 0..MaxStrays
  /\ up => Len(toServer) + Len(toClient) = strays + (IF pc = "waiting" THEN 1 ELSE 0)
  /\ \A i \in 1..Len(toServer) : toServer[i].call \in 1..This /\ log[toServer[i].call].done = << >>
  /\ \A i \in 1..Len(toClient) : toClient[i].call \in 1..This /\ log[toClient[i].call].done # << >>
  /\ \A n \in 1..Len(log) :
       /\ log[n].req \in Requests /\ log[n].out \in {"open", "ok", "failed", "mismatched"}

\* The promise of P9Calls, with strays or without: the client is behind by at most as many
\* replies as were sent twice, and as long as these are fewer than there are tags, the tag
\* tells an old reply from the one that is due.
Calls == INSTANCE P9Calls
KeepsPromise == Calls!Spec

\* What the promise rests on in the codec: no body whose strings, names and qids are counted
\* right is read as anything else, if it can be read at all.
RoundTrips ==
  /\ \A req \in Requests :
       AllCounted(RequestFormat[req.type], req.values) /\ RequestRead[req].ok => RequestRead[req].got = req.values
  /\ \A type \in DOMAIN Answers : \A values \in Answers[type] :
       AllCounted(ReplyFormat[type], values) /\ AnswerRead[type][values].ok => AnswerRead[type][values].got = values

\* Once a reply had the wrong tag, no later call on the connection succeeds: the client takes
\* one reply per call from the stream, and never catches up.  Who goes on using it gets
\* errors, never the answer to another call.
NeverBackInStep ==
  \A n \in 1..Len(log) : log[n].out = "mismatched" => \A m \in n..Len(log) : log[m].out # "ok"

\* A stat whose length is cut, although those of its strings are not, is refused at both
\* ends: a Twstat with one is answered, if at all, with Rerror and by a server that took
\* nothing from it; and no client succeeds with one as the answer to its Tstat.
CutStatsAreRefused ==
  \A n \in 1..Len(log) :
    LET req == log[n].req
        done == log[n].done
        TooLong(stat) == Counted("stat", stat) /\ Len(StatBuf(stat)) >= LengthModulus
    IN  /\ req.type = "Twstat" /\ TooLong(req.values[2]) /\ done # << >>
             => done[1].understood = << >> /\ done[1].answer = ErrorAnswer
        /\ req.type = "Tstat" /\ log[n].out = "ok" => ~TooLong(done[1].answer.values[1])

\* the server takes every request from the stream in the end, or the connection ends
ServerAnswers == []<>(~up \/ toServer = << >>)

\* Nothing but the server can keep a call waiting for ever: where it answers or goes, every
\* call returns, also one whose reply an earlier call took from the stream, and one on a
\* stream that has ended.  There is no timeout: where the server does neither, a call waits.
CallsReturn == ServerAnswers => (pc = "waiting" ~> pc = "idle")
==============================================================================
