------------------------------ MODULE MCRequests ------------------------------
(***************************************************************************)
(* Entries for Requests.  Client c1 meets the conditions of the policies,  *)
(* c2 is drawn by those with a percentage; v1 is the stable version, v2 the *)
(* canary.                                                                 *)
(***************************************************************************)
EXTENDS Requests

CONSTANTS c1, c2

MCClients == {c1, c2}
Symmetry  == Permutations(Requests)

Member(i, w)      == [id |-> i, weight |-> w]
Version(v, w, p)  == [id |-> v, weight |-> w, pool |-> p]
Rule(s, n, w, b)  == [scope |-> s, limit |-> n, window |-> w, burst |-> b]
Policy(x, cs, t, how, s, n) ==
  [explicit |-> x, clients |-> cs, target |-> t, balance |-> how, sticky |-> s, priority |-> n]
Entry(ls, vs, ps) ==
  [limits |-> ls, versioned |-> TRUE, versions |-> vs, policies |-> ps, pool |-> <<>>]
Plain(ls, ms) ==
  [limits |-> ls, versioned |-> FALSE, versions |-> <<>>, policies |-> {}, pool |-> ms]

Stable == <<Member("a", 1), Member("b", 1)>>
Canary == <<Member("c", 0)>>

ToCanary == Policy(TRUE, {c1}, "v2", "round_robin", TRUE, 1)
Least    == Policy(TRUE, {c1}, "v1", "least_conn", FALSE, 1)
Drawn    == Policy(FALSE, {c2}, "v2", "consistent_hash", FALSE, 1)

Domain == Rule("domain", 1, 3, 0)

\* A canary that is stepped up, has no instance, is stopped while the stable
\* version has none, and a host without versions, whose instances go away.
MCEntries ==
  { Entry(<<>>, <<Version("v1", 2, Stable), Version("v2", 1, Canary)>>, {Least, Drawn}),
    Entry(<<>>, <<Version("v1", 2, Stable)>>, {ToCanary}),
    Entry(<<>>, <<Version("v2", 0, Canary)>>, {ToCanary}),
    Plain(<<Domain>>, <<Member("d", 1)>>),
    Plain(<<>>, <<>>) }

\* A quota for the burst and one for the long run.
TwoRules == {Plain(<<Rule("domain", 2, 1, 0), Rule("domain", 2, 3, 0)>>, <<Member("d", 1)>>)}

\* A quota of which the end of a window and the start of the next can have a part.
OneRule == {Plain(<<Rule("domain", 2, 3, 0)>>, <<Member("d", 1)>>)}
===============================================================================
