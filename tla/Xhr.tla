--------------------------------- MODULE Xhr ---------------------------------
(***************************************************************************)
(* The requests a page has in flight, in the order in which it sent them.  *)
(* The web server has four workers and the browser several connections:    *)
(* answers come in any order.  "overtaken" is history: the page moved on   *)
(* to something later than this request, because a later request completed *)
(* or because the page dropped what the request was for.                   *)
(***************************************************************************)
EXTENDS Naturals, SequencesExt

\* $.ajax()
Sent(inflight, request) == Append(inflight, [request |-> request, overtaken |-> FALSE])

OvertakenUpTo(inflight, n) ==
    [i \in DOMAIN inflight |->
        IF i <= n THEN [inflight[i] EXCEPT !.overtaken = TRUE] ELSE inflight[i]]

\* The request at i gets its answer or fails: .done() or .fail(), then .always()
Completed(inflight, i) == RemoveAt(OvertakenUpTo(inflight, i), i)
===============================================================================
