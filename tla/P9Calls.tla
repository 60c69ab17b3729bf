-------------------------------- MODULE P9Calls ------------------------------
(***************************************************************************)
(* What a 9P client promises its caller, said without tags, streams or     *)
(* bodies: a call is taken up at most once, whether or not its caller      *)
(* hears of it; it succeeds only with what its own execution answered; and *)
(* a failure says nothing about whether it was executed, nor stops it from *)
(* being executed later.                                                   *)
(***************************************************************************)
EXTENDS P9Codec

CONSTANT Requests    \* what may be asked: a type and the values of its fields

\* the calls so far, in order: what was asked, what the server understood and answered,
\* once it has, and how the call ended
VARIABLE log

Asked(n) == n \in 1..Len(log)
Executed(n) == log[n].done # << >>
Open(n) == log[n].out = "open"

Init == log = << >>

Ask ==
  /\ \A n \in 1..Len(log) : ~Open(n)
  /\ \E req \in Requests :
       log' = Append(log, [req |-> req, done |-> << >>, out |-> "open", value |-> << >>])

\* requests that are granted without a look at them
Granted == {"Tauth", "Tflush"}

\* the server does what was asked, unless a length in the request is cut; or it answers
\* without a look at the request, and then, but for those, turns it down
Execute(n) ==
  /\ ~Executed(n)
  /\ log' = [log EXCEPT ![n].done = log'[n].done]
  /\ Len(log'[n].done) = 1
  /\ LET req == log[n].req
         done == log'[n].done[1]
     IN  \/ done.understood = << >> /\ (done.answer.error \/ req.type \in Granted)
         \/ AllCounted(RequestFormat[req.type], req.values) => done.understood = req.values

\* the caller gets what the server answered, unless a length in the answer is cut
Succeed(n) ==
  /\ Open(n) /\ Executed(n)
  /\ log' = [log EXCEPT ![n].out = "ok", ![n].value = log'[n].value]
  /\ LET answer == log[n].done[1].answer
     IN  /\ ~answer.error
         /\ AllCounted(ReplyFormat[log[n].req.type], answer.values) => log'[n].value = answer.values

Fail(n) ==
  /\ Open(n)
  /\ log' \in {[log EXCEPT ![n].out = "failed"], [log EXCEPT ![n].out = "mismatched"]}

Next == Ask \/ \E n \in 1..Len(log) : Execute(n) \/ Succeed(n) \/ Fail(n)

Spec == Init /\ [][Next]_log
==============================================================================
