----------------------------- MODULE MCHttpPool -----------------------------
(* Two image requests, one text request, three posts, or two of a chat. *)
EXTENDS HttpPool

MCRequests == {"a", "b", "c"}
MCKinds ==
  {[r \in {"a", "b"} |-> "img"], [r \in {"a"} |-> "txt"],
   [r \in MCRequests |-> "post"], [r \in {"a", "b"} |-> "enquire"]}
=============================================================================
