---------------------------- MODULE WorkAdmission ----------------------------
(***************************************************************************)
(* tools/work_admission.py: whether a proposed worker may start next to    *)
(* the claims that stand, and whether a claim or its worktree may be given *)
(* up.  The functions only decide; what is done with the decisions is      *)
(* AdmittedWork.                                                           *)
(*                                                                         *)
(* A path is the sequence of the components it is written with, as         *)
(* split("/") returns them: an absolute path starts with "".  No path is   *)
(* written with a backslash, which the code turns into a slash, or with a  *)
(* drive letter, which it refuses.                                         *)
(***************************************************************************)
EXTENDS Integers, Sequences, FiniteSets, SequencesExt

ActiveStatus     == {"CLAIMED", "ACTIVE", "WAIT", "YIELD", "RETRY"}
ReleasableStatus == {"COMPLETE", "ABANDON", "SUPERSEDED", "RELEASED"}

-----------------------------------------------------------------------------
(* Paths.                                                                  *)

Escaped == <<"..">>   \* a path that leaves the repository

Descend(parts, part) ==
  IF parts = Escaped \/ part \in {"", "."} THEN parts
  ELSE IF part # ".." THEN Append(parts, part)
  ELSE IF parts = <<>> THEN Escaped ELSE Front(parts)

Normalized(written) == FoldLeft(Descend, <<>>, written)
IsUsablePath(written) ==
  written[1] # "" /\ Normalized(written) \notin {<<>>, Escaped}

(* posixpath.normpath: ".." stays at the root, and a path that starts with *)
(* exactly two slashes keeps both.                                         *)
DescendFromRoot(parts, part) ==
  IF part \in {"", "."} THEN parts
  ELSE IF part # ".." THEN Append(parts, part)
  ELSE IF parts = <<>> THEN <<>> ELSE Front(parts)

HasTwoSlashes(written) ==
  Len(written) > 2 /\ written[2] = "" /\ written[3] # ""
Canonical(written) ==
  (IF HasTwoSlashes(written) THEN <<"", "">> ELSE <<"">>)
    \o FoldLeft(DescendFromRoot, <<>>, written)
IsUsableWorktree(written) ==
  written[1] = "" /\ Canonical(written) \notin {<<"">>, <<"", "">>}

StartsWith(path, directory) ==
  /\ Len(directory) <= Len(path)
  /\ \A i \in 1..Len(directory) : path[i] = directory[i]

LiesWithin(a, b) == StartsWith(b, a)   \* faulty: looks one way only
PathsOverlap(a, b) == StartsWith(a, b) \/ StartsWith(b, a)

-----------------------------------------------------------------------------
(* Claims.                                                                 *)

NoRuntime == [id |-> "none", isolated |-> TRUE]

ParsesClaim(raw) ==
  /\ IsUsableWorktree(raw.worktree)
  /\ \A path \in raw.paths : IsUsablePath(path)
  /\ raw.status \in ActiveStatus \cup ReleasableStatus

ParsedClaim(raw) ==
  [raw EXCEPT !.worktree = Canonical(@), !.paths = {Normalized(path) : path \in @}]

IsActive(claim) == claim.status \in ActiveStatus
Live(existing) == {i \in DOMAIN existing : IsActive(existing[i])}

HaveDuplicate(existing) ==
  \E i, j \in DOMAIN existing : i # j /\ existing[i].id = existing[j].id
HaveAmbiguous(existing) == \E i \in Live(existing) : existing[i].ambiguous

-----------------------------------------------------------------------------
(* Admission.                                                              *)

ShareRuntime(p, c) ==
  /\ p.runtime # NoRuntime /\ c.runtime # NoRuntime
  /\ p.runtime.id = c.runtime.id
  /\ ~(p.runtime.isolated /\ c.runtime.isolated)

Conflict(p, c) ==
  IF ShareRuntime(p, c) THEN "SHARED_RUNTIME"
  ELSE IF p.repository # c.repository THEN "NONE"
  ELSE IF p.worktree = c.worktree THEN "SHARED_WORKTREE"
  ELSE IF p.workstream = c.workstream
    THEN IF p.revision = c.revision THEN "OVERLAPPING_CLAIM" ELSE "STALE_INTENT_REVISION"
  ELSE IF p.paths = {} \/ c.paths = {} THEN "INSUFFICIENT_OWNERSHIP"
  ELSE IF \E left \in p.paths, right \in c.paths : PathsOverlap(left, right)
    THEN "OVERLAPPING_PATHS"
  ELSE "NONE"

(* The first live claim that conflicts, in the order of the list, only     *)
(* decides which class is reported; here it is any of them.                *)
Admit(p, existing, host, limit) ==
  IF p.ambiguous \/ ~IsActive(p) THEN "AMBIGUOUS_CLAIM"
  ELSE IF host \notin {"PASS", "WARN"} THEN "HOST_BUDGET"
  ELSE IF \/ HaveDuplicate(existing) \/ HaveAmbiguous(existing)
          \/ \E i \in DOMAIN existing : existing[i].id = p.id THEN "AMBIGUOUS_CLAIM"
  ELSE IF Live(existing) # {} /\ Cardinality(Live(existing)) >= limit THEN "WIP_LIMIT"
  ELSE IF \E i \in Live(existing) : Conflict(p, existing[i]) # "NONE"
    THEN CHOOSE class \in {Conflict(p, existing[i]) : i \in Live(existing)} : class # "NONE"
  ELSE "ALLOW"

(* evaluate_admit: one claim that does not parse refuses the request.      *)
EvaluateAdmit(raw, list, host, limit) ==
  IF ~ParsesClaim(raw) \/ \E i \in DOMAIN list : ~ParsesClaim(list[i])
  THEN "REJECT_FACTS"
  ELSE Admit(ParsedClaim(raw), [i \in DOMAIN list |-> ParsedClaim(list[i])], host, limit)

-----------------------------------------------------------------------------
(* Giving up a claim, or its worktree.                                     *)

UncheckedForPush(claim) == claim.dirty \/ claim.ambiguous   \* faulty: forgets unpushed
Unsafe(claim) == claim.dirty \/ claim.unpushed \/ claim.ambiguous

EvaluateRelease(action, id, list) ==
  LET matches == {i \in DOMAIN list : list[i].id = id} IN
  IF \E i \in DOMAIN list : ~ParsesClaim(list[i]) THEN "REJECT_FACTS"
  ELSE IF Cardinality(matches) # 1 \/ \E i \in matches : list[i].ambiguous THEN "AMBIGUOUS_CLAIM"
  ELSE IF action = "cleanup-worktree" /\ \E i \in matches : Unsafe(list[i]) THEN "UNSAFE_CLEANUP"
  ELSE IF \E i \in matches : list[i].status \notin ReleasableStatus THEN "ACTIVE_CLAIM"
  ELSE "ALLOW"
=============================================================================
