--------------------------- MODULE MCAdmittedWork ---------------------------
(* Two workstreams of one repository whose paths overlap through an alias,  *)
(* a second revision of the first in its worktree, a third workstream that  *)
(* is independent of them, and one of another repository that uses the      *)
(* third's database.                                                        *)
EXTENDS AdmittedWork

OfWork(id, workstream, revision, worktree, paths) ==
  [id |-> id, repository |-> "repo", workstream |-> workstream, revision |-> revision,
   worktree |-> worktree, paths |-> paths, status |-> "CLAIMED", runtime |-> NoRuntime,
   dirty |-> FALSE, unpushed |-> FALSE, ambiguous |-> FALSE]

OnDatabase(claim) == [claim EXCEPT !.runtime = [id |-> "db", isolated |-> FALSE]]

const_Proposal ==
  {OfWork(1, "a", 1, <<"", "w1">>, {<<"src">>}),
   OfWork(2, "a", 2, <<"", "tmp", "..", "w1", "">>, {<<"src">>}),
   OfWork(2, "b", 1, <<"", "w2">>, {<<"docs", "..", "src", "main">>}),
   OnDatabase(OfWork(3, "c", 1, <<"", "w2">>, {<<"docs">>})),
   [OnDatabase(OfWork(1, "d", 1, <<"", "w3">>, {})) EXCEPT !.repository = "other"]}

CONSTANTS c1, c2

AnyDispatch == Permutations(DispatchId)

(* All the proposals, with workers and cleanups; one caller with two        *)
(* dispatches while a revision replaces the other; two callers with one.    *)
Revision(n) == {p \in const_Proposal : p.workstream = "a" /\ p.revision <= n}
const_Scene ==
  {[proposals |-> const_Proposal, statuses |-> {"RETRY", "COMPLETE"}, workers |-> {"edit", "vanish"},
    cleanups |-> TRUE, callers |-> {}, dispatches |-> 0, flaws |-> {}, time |-> 0, changes |-> 0],
   [proposals |-> Revision(2), statuses |-> {"COMPLETE"}, workers |-> {},
    cleanups |-> FALSE, callers |-> {c1}, dispatches |-> 2, flaws |-> {NoFlaw}, time |-> 0, changes |-> 1],
   [proposals |-> Revision(1), statuses |-> {"COMPLETE"}, workers |-> {"vanish"},
    cleanups |-> FALSE, callers |-> {c1, c2}, dispatches |-> 1, flaws |-> {NoFlaw, "APPROVAL_REQUIRED"}, time |-> 1, changes |-> 0]}

const_File == {<<"src", "main", "x">>, <<"docs", "y">>}

P(revision, status) ==
  [repository |-> "repo", workstream |-> "a", revision |-> revision, status |-> status, head |-> "h"]
const_Packet == {P(1, "ACTIVE"), P(2, "ACTIVE")}
=============================================================================
