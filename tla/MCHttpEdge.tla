----------------------------- MODULE MCHttpEdge -----------------------------
(* HttpEdge for TLC: profiles of two NPCs, which share a label, a list, a  *)
(* health check and a scrape, all from one client.                         *)
EXTENDS HttpEdge, TLC

CONSTANTS garon, elara, list, health, scrape

MCPathOf ==
  (garon :> <<"api", "v1", "npcs", "garon", "profile">>)
  @@ (elara :> <<"api", "v1", "npcs", "elara", "profile">>)
  @@ (list :> <<"api", "v1", "npcs">>)
  @@ (health :> <<"health">>)
  @@ (scrape :> <<"metrics">>)
=============================================================================
