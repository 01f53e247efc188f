-------------------------------- MODULE Http --------------------------------
(***************************************************************************)
(* The retry convention of the HTTP ports, a local copy in each of them    *)
(* (whatsapp.py, ads.py, labs.py and others): 429, 5xx and transport       *)
(* failures are tried again, all else is final.                            *)
(*                                                                         *)
(* A call is told as the sequence of answers it got: "ok", "refused" (any  *)
(* other status, or a body that makes no sense), "busy" (429, 5xx) or      *)
(* "lost" (a transport failure: the request may have been carried out).    *)
(***************************************************************************)
EXTENDS Integers, Sequences

Transient == {"busy", "lost"}

\* Calls that may happen: tried again while the answer is transient, at most
\* `retries' times, or until the time budget runs out.
Calls(retries) ==
  {answers \in UNION {[1 .. n -> Transient \union {"ok", "refused"}] : n \in 1 .. retries + 1} :
     \A n \in 1 .. Len(answers) - 1 : answers[n] \in Transient}

Result(answers) ==
  LET last == answers[Len(answers)] IN IF last \in Transient THEN "exhausted" ELSE last
=============================================================================
