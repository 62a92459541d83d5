------------------------------ MODULE RemoteCall ------------------------------
(***************************************************************************)
(* What the host is promised about a call: a command that answers with     *)
(* success has been executed once, with the struct the host sent, and what *)
(* the host gets back is what that execution produced.  A world without    *)
(* memory, or with another idea of a request's structs, may make something *)
(* else of a struct.  A call may always fail instead, before or after the  *)
(* command was executed; what it hands back then promises nothing.         *)
(***************************************************************************)
CONSTANTS
  Requests,    \* a command and what it is sent
  Outcomes,    \* what executing a request can produce: what the handler is
               \* given, its result, and the struct it fills
  Results, Success,
  Structs,     \* what can be handed to the host
  Received,    \* what the host can make of a struct that was filled, for each
               \* request
  Nothing

VARIABLES
  request,     \* the call in progress
  outcome,     \* of its execution
  answer       \* of the last call

NoAnswer == [result |-> Nothing, out |-> Nothing]

Init == request = Nothing /\ outcome = Nothing /\ answer = NoAnswer

Request ==
  /\ request = Nothing
  /\ request' \in Requests
  /\ outcome' = Nothing
  /\ answer' = NoAnswer

Execute ==
  /\ request # Nothing
  /\ outcome = Nothing
  /\ outcome' \in Outcomes[request]
  /\ UNCHANGED <<request, answer>>

Answer ==
  /\ request # Nothing
  /\ answer' \in [result : Results, out : Structs]
  /\ answer'.result = Success =>
       /\ outcome # Nothing /\ outcome.result = Success
       /\ answer'.out \in Received[request][outcome.out]
  /\ request' = Nothing
  /\ UNCHANGED outcome

(* The host frees what it was handed. *)
Free ==
  /\ request = Nothing
  /\ answer' = [answer EXCEPT !.out = Nothing]
  /\ UNCHANGED <<request, outcome>>

Next == Request \/ Execute \/ Answer \/ Free

Spec == Init /\ [][Next]_<<request, outcome, answer>>
===============================================================================
