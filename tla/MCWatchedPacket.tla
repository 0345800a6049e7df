--------------------------- MODULE MCWatchedPacket ---------------------------
(* Two commits, two revisions, a blocked and an ambiguous complete packet.  *)
EXTENDS WatchedPacket

CONSTANTS h1, h2

P(status, revision, audit, authorized) ==
  [status |-> status, intent_revision |-> revision, audit |-> audit, authorized |-> authorized,
   ambiguous |-> FALSE, change_risk |-> "MEDIUM", dependencies |-> {}]

const_Heads  == {h1, h2}
const_Packet ==
  {P("ACTIVE", 1, "UNKNOWN", 0), P("BLOCKED", 1, "FAIL", 0), P("ACTIVE", 2, "PASS", 1),
   [P("COMPLETE", 1, "UNKNOWN", 0) EXCEPT !.ambiguous = TRUE]}

World(v, pull, dirty, unpushed, claim) ==
  [packet |-> P("ACTIVE", 1, "UNKNOWN", 0), head |-> h1,
   ci |-> [h \in const_Heads |-> IF h = h1 THEN v ELSE "UNKNOWN"], pull |-> pull,
   tree |-> [head |-> h1, dirty |-> dirty, unpushed |-> unpushed], resource |-> "PASS",
   claim |-> claim]
const_Origin == {World("PASS", FALSE, "YES", "NO", "ACTIVE")}
=============================================================================
