------------------------- MODULE MCEvidenceService -------------------------
(* One slot for two clients, and requests for each way through ServeHTTP,  *)
(* of the refusals that Check makes only one; a page of revision 0, before *)
(* a first snapshot, is an invalid query.                                  *)
EXTENDS EvidenceService

CONSTANTS a, b

Get(route, query) ==
  [authenticated |-> TRUE, get |-> TRUE, route |-> route, bounded |-> TRUE,
   query |-> query, revision |-> 0]

MCForms ==
  { [Get("snapshot", "none") EXCEPT !.authenticated = FALSE],
    [Get("collection", "page") EXCEPT !.bounded = FALSE],
    Get("readyz", "none"),
    Get("snapshot", "none"),
    Get("collection", "page") }
=============================================================================
