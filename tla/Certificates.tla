------------------------------ MODULE Certificates ------------------------------
(***************************************************************************)
(* The certificates of one hostname: package certificate of the gateway.   *)
(*                                                                         *)
(* The rows in the database are what is to be served, the cache of each    *)
(* gateway is what its handshakes are served with.  Administrators upload, *)
(* replace, delete, renew and reload; asking for a certificate starts a    *)
(* job that outlives the request and is recorded as an operation.  Three   *)
(* loops run beside them: the reconciliation of the cache on every         *)
(* gateway, the automatic renewal, on a gateway that believes to be the    *)
(* leader, and the clean-up of operations that nobody works at any more.   *)
(* Every statement, and every order at the CA, is a step of its own.       *)
(*                                                                         *)
(* A certificate is a number; when it ends is left open.  Validation and   *)
(* encryption are inside the steps that need their outcome.  The domain    *)
(* exists and every row is bound to it.  Its status is written in the step *)
(* before, as nobody here reads it.  What the scan for expiry finds, a     *)
(* status for display, and the progress of an order are left out.          *)
(***************************************************************************)
EXTENDS Naturals

CONSTANTS
  Gateways,
  Requests,      \* bound: requests that a gateway serves at a time
  MaxCerts,      \* bound: certificates that come to exist
  MaxOps,        \* bound: operations that somebody may remember
  MaxEvents,     \* bound: deletions, failures, crashes
  None           \* no row

Ids == {1, 2}    \* bound: rows of the hostname at a time

VARIABLES
  rows,      \* the rows of the hostname
  oldest,    \* the one whose updated_at is the earliest
  issued,    \* how many certificates exist
  open,      \* the operations that have not ended
  pending,   \* the certificate_status of the domain is pending
  cache,     \* what each gateway serves, 0 for nothing
  hand,      \* what each goroutine of each gateway is at
  stored,    \* history: certificates that have been in a row
  events     \* events so far

vars == <<rows, oldest, issued, open, pending, cache, hand, stored, events>>

Certs   == 1..MaxCerts
Ops     == 1..MaxOps
Sources == {"manual", "acme"}
Row     == [id : Ids, mat : Certs, source : Sources]
Jobs    == {"job"} \X Gateways \X Ops
Workers == (({"renew", "reload"} \cup Requests) \X Gateways) \cup Jobs
Hand    == [at : {"idle", "write", "set", "load", "delete", "uncache", "create", "order",
                  "finish", "failed", "next", "renewing", "replace"},
            id : Ids \cup {None}, mat : 0..MaxCerts, todo : SUBSET Ids]

ASSUME CertificatesAssumption ==
  /\ MaxCerts \in Nat \ {0} /\ MaxOps \in Nat /\ MaxEvents \in Nat
  /\ None \notin Row /\ None \notin Ids
  /\ Requests \cap {"renew", "reload", "job"} = {}

TypeOK ==
  /\ rows \in [Ids -> Row \cup {None}] /\ oldest \in Ids
  /\ issued \in 0..MaxCerts /\ open \subseteq Ops /\ pending \in BOOLEAN
  /\ cache \in [Gateways -> 0..MaxCerts]
  /\ hand \in [Workers -> Hand]
  /\ stored \subseteq Certs /\ events \in 0..MaxEvents

Nothing == [at |-> "idle", id |-> None, mat |-> 0, todo |-> {}]

OfRow(at, id, todo) == [at |-> at, id |-> id, mat |-> 0, todo |-> todo]

New(id, c, s) == [id |-> id, mat |-> c, source |-> s]

\* The gateways come up with what the rows say.
Init ==
  /\ rows \in {[id \in Ids |-> None]} \cup
              {[id \in Ids |-> IF id = 1 THEN New(1, 1, s) ELSE None] : s \in Sources}
  /\ oldest = 1 /\ issued = IF rows[1] = None THEN 0 ELSE 1
  /\ open = {} /\ pending = FALSE
  /\ cache = [g \in Gateways |-> issued]
  /\ hand = [w \in Workers |-> Nothing]
  /\ stored = 1..issued /\ events = 0

Event == events < MaxEvents /\ events' = events + 1

------------------------------------------------------------------------------
(* Rows and hands.                                                         *)

Stored == {rows[id] : id \in Ids} \ {None}

\* GetByHostname: the First of the rows by updated_at, ascending.
ByHostname == IF rows[oldest] = None THEN None ELSE oldest

Other(id) == 3 - id

\* Ids that nobody remembers: they stand for ids that were never given out.
Forgotten == {id \in Ids : /\ rows[id] = None
                           /\ \A w \in Workers : hand[w].id # id /\ id \notin hand[w].todo}

\* A statement writes the row r: its updated_at is the latest.
Save(r) ==
  /\ rows' = [rows EXCEPT ![r.id] = r] /\ stored' = stored \cup {r.mat}
  /\ oldest' = IF rows[Other(r.id)] = None THEN r.id ELSE Other(r.id)

Unsaved == UNCHANGED <<rows, oldest, stored>>

Stage(w, s) == hand' = [hand EXCEPT ![w].at = s]
Rest(w)     == hand' = [hand EXCEPT ![w] = Nothing]
Begin(w, h) == hand[w].at = "idle" /\ hand' = [hand EXCEPT ![w] = h]

\* A row is written: what was saved goes to the cache next.
ToCache(w, c) == hand' = [hand EXCEPT ![w] = [Nothing EXCEPT !.at = "set", !.mat = c,
                                                             !.todo = hand[w].todo]]

\* What is next for a goroutine that goes through a list of rows.
Rests(todo) == IF todo = {} THEN Nothing ELSE [Nothing EXCEPT !.at = "next", !.todo = todo]

\* What is next once a writer is through, or cannot go on: a job has an operation
\* to finish.
Leaves(w, end) == IF w[1] = "job" THEN hand' = [hand EXCEPT ![w] = [Nothing EXCEPT !.at = end]]
                  ELSE hand' = [hand EXCEPT ![w] = Rests(hand[w].todo)]

------------------------------------------------------------------------------
(* Certificates uploaded, replaced, reloaded and deleted by hand.          *)

\* Upload looks for the row to replace by hostname, Update by id.
Upload(w, id) ==
  /\ issued < MaxCerts /\ issued' = issued + 1
  /\ Begin(w, [Nothing EXCEPT !.at = "write", !.id = id, !.mat = issued + 1])
  /\ UNCHANGED <<rows, oldest, open, pending, cache, stored, events>>

Source(w) == IF w[1] = "job" THEN "acme" ELSE "manual"

\* UpdateContent of the row that was read, by id, or Create when there was none:
\* the hostname is not unique.
Written(w) ==
  IF hand[w].id = None
  THEN {New(id, hand[w].mat, Source(w)) : id \in {i \in Forgotten : \A k \in Forgotten : i <= k}}
  ELSE {New(r.id, hand[w].mat, Source(w)) : r \in {rows[hand[w].id]} \ {None}}

Write(w) ==
  /\ hand[w].at = "write"
  /\ \/ \E r \in Written(w) : Save(r) /\ ToCache(w, r.mat) /\ UNCHANGED events
     \/ Written(w) = {} /\ Unsaved /\ Leaves(w, "failed") /\ UNCHANGED events
     \/ Event /\ Unsaved /\ Leaves(w, "failed")
  /\ UNCHANGED <<issued, open, pending, cache>>

\* reloadIntoCache of the row as it was saved; syncDomainTLS.
SetCache(w) ==
  /\ hand[w].at = "set" /\ cache' = [cache EXCEPT ![w[2]] = hand[w].mat]
  /\ pending' = FALSE /\ Leaves(w, "finish")
  /\ UNCHANGED <<rows, oldest, issued, open, stored, events>>

Reload(w, r) ==
  /\ Begin(w, [Nothing EXCEPT !.at = "load", !.mat = r.mat])
  /\ UNCHANGED <<rows, oldest, issued, open, pending, cache, stored, events>>

Load(w) ==
  /\ hand[w].at = "load" /\ cache' = [cache EXCEPT ![w[2]] = hand[w].mat] /\ Rest(w)
  /\ UNCHANGED <<rows, oldest, issued, open, pending, stored, events>>

\* Delete: the CA is told, then the row goes, the cache, the domain's status.
Delete(w, r) ==
  /\ Event /\ Begin(w, OfRow("delete", r.id, {}))
  /\ UNCHANGED <<rows, oldest, issued, open, pending, cache, stored>>

DeleteRow(w) ==
  /\ hand[w].at = "delete"
  /\ LET id == hand[w].id
     IN /\ rows' = [rows EXCEPT ![id] = None]
        /\ oldest' = IF rows[Other(id)] = None THEN 1 ELSE Other(id)
        /\ IF rows[id] = None THEN Rest(w)
           ELSE hand' = [hand EXCEPT ![w] = [Nothing EXCEPT !.at = "uncache"]]
  /\ UNCHANGED <<issued, open, pending, cache, stored, events>>

Uncache(w) ==
  /\ hand[w].at = "uncache" /\ cache' = [cache EXCEPT ![w[2]] = 0] /\ Rest(w)
  /\ pending' = (pending /\ Stored # {})
  /\ UNCHANGED <<rows, oldest, issued, open, stored, events>>

------------------------------------------------------------------------------
(* Issuing.                                                                *)

\* Some gateway's job works at the operation.
Working(o) == \E g \in Gateways : hand[<<"job", g, o>>].at # "idle"

\* IssueAsync returns an operation that is open; it goes on when none is.
IssueAsync(w) ==
  /\ open = {}
  /\ Begin(w, [Nothing EXCEPT !.at = "create"])
  /\ UNCHANGED <<rows, oldest, issued, open, pending, cache, stored, events>>

\* The partial unique index: one open operation for a hostname.  One that has
\* ended and that nobody works at stands for a new one.
Admits(o) == open = {} /\ ~ Working(o)

\* The operation is recorded, the domain set to pending, the job started.
CreateOp(w) ==
  /\ hand[w].at = "create"
  /\ \/ \E o \in Ops :
          /\ Admits(o)
          /\ open' = open \cup {o} /\ pending' = TRUE
          /\ hand' = [hand EXCEPT ![w] = Nothing,
                                  ![<<"job", w[2], o>>] = [Nothing EXCEPT !.at = "order"]]
     \/ open # {} /\ Rest(w) /\ UNCHANGED <<open, pending>>
  /\ UNCHANGED <<rows, oldest, issued, cache, stored, events>>

\* The CA has issued a certificate and persistIssued looks for the row to
\* replace; or it has not, or the job is out of time.
JobAnswer(j) ==
  /\ hand[j].at = "order"
  /\ \/ /\ issued < MaxCerts /\ issued' = issued + 1
        /\ hand' = [hand EXCEPT ![j] = [Nothing EXCEPT !.at = "write", !.id = ByHostname,
                                                       !.mat = issued + 1]]
     \/ Stage(j, "failed") /\ UNCHANGED issued
  /\ UNCHANGED <<rows, oldest, open, pending, cache, stored, events>>

\* Finish may be lost, as it always is when the process is shutting down.  After
\* a failure syncDomainAfterIssueFailure leaves the domain alone when there is a
\* certificate.
Finish(j) ==
  /\ hand[j].at \in {"finish", "failed"} /\ Rest(j)
  /\ \/ open' = open \ {j[3]} /\ UNCHANGED events
     \/ Event /\ UNCHANGED open
  /\ pending' = (pending /\ ~ (hand[j].at = "failed" /\ Stored = {}))
  /\ UNCHANGED <<rows, oldest, issued, cache, stored>>

\* Mutant: whether somebody works at it is not asked.
StaleAtOnce(o) == o \in open

\* ExpireStale: fifteen minutes without a write.  A job has ten in all, so the
\* operation is nobody's any more.
Stale(o) == o \in open /\ ~ Working(o)

ExpireStale ==
  /\ \E o \in Ops : Stale(o)
  /\ open' = {o \in open : ~ Stale(o)}
  /\ UNCHANGED <<rows, oldest, issued, pending, cache, hand, stored, events>>

------------------------------------------------------------------------------
(* Renewal, the reconciliation of the cache, crashes.                      *)

\* DueForRenewal, by status and end: any of them may be close to its end.
\* Neither next_renew_at nor the attempts are asked.
Renewable == {id \in Ids : rows[id] # None /\ rows[id].source = "acme"}

RenewTick(g) ==
  /\ \E due \in (SUBSET Renewable) \ {{}} :
       Begin(<<"renew", g>>, [Nothing EXCEPT !.at = "next", !.todo = due])
  /\ UNCHANGED <<rows, oldest, issued, open, pending, cache, stored, events>>

RenewNext(w) ==
  /\ w[1] = "renew" /\ hand[w].at = "next"
  /\ \E t \in hand[w].todo :
       hand' = [hand EXCEPT ![w] = OfRow("renewing", t, hand[w].todo \ {t})]
  /\ UNCHANGED <<rows, oldest, issued, open, pending, cache, stored, events>>

RenewNow(w, r) ==
  /\ r.source = "acme"
  /\ Begin(w, OfRow("renewing", r.id, {}))
  /\ UNCHANGED <<rows, oldest, issued, open, pending, cache, stored, events>>

\* renewOne, once the CA has answered.  The row may be another by now.
RenewSuccess(w) ==
  /\ hand[w].at = "renewing" /\ issued < MaxCerts /\ issued' = issued + 1
  /\ LET r == rows[hand[w].id]
     IN \/ /\ r # None
           /\ Save(New(r.id, issued + 1, "acme")) /\ ToCache(w, issued + 1)
           /\ UNCHANGED events
        \/ r = None /\ Unsaved /\ Leaves(w, "failed") /\ UNCHANGED events
        \/ Event /\ Unsaved /\ Leaves(w, "failed")
  /\ UNCHANGED <<open, pending, cache>>

\* onRenewFailure writes the attempts, the error and when to try again.  Nothing
\* reads them; that the row has been written counts.
RenewFailure(w) ==
  /\ hand[w].at = "renewing"
  /\ IF rows[hand[w].id] = None THEN Unsaved ELSE Save(rows[hand[w].id])
  /\ Leaves(w, "failed")
  /\ UNCHANGED <<issued, open, pending, cache, events>>

\* A row is written and what it holds stays: the status that ScanExpiring gives
\* it, or the binding that Update changes, which also sets the domain's status.
Touch(id) ==
  /\ rows[id] # None /\ Save(rows[id])
  /\ pending' \in {pending, FALSE}
  /\ UNCHANGED <<issued, open, cache, hand, events>>

\* ReloadAll reads all the rows, whatever their status; of two of one hostname
\* either may come last and stay.
Served == IF Stored = {} THEN {0} ELSE {r.mat : r \in Stored}

\* Mutant: an empty list is taken for a failure.
ReloadTickOfSome(g) ==
  /\ \E r \in Stored :
       Begin(<<"reload", g>>, [Nothing EXCEPT !.at = "replace", !.mat = r.mat])
  /\ UNCHANGED <<rows, oldest, issued, open, pending, cache, stored, events>>

ReloadTick(g) ==
  /\ \E c \in Served :
       Begin(<<"reload", g>>, [Nothing EXCEPT !.at = "replace", !.mat = c])
  /\ UNCHANGED <<rows, oldest, issued, open, pending, cache, stored, events>>

ReplaceAll(w) ==
  /\ hand[w].at = "replace" /\ cache' = [cache EXCEPT ![w[2]] = hand[w].mat] /\ Rest(w)
  /\ UNCHANGED <<rows, oldest, issued, open, pending, stored, events>>

\* The gateway dies with what its goroutines were at, and loads its cache anew.
Crash(g) ==
  /\ Event
  /\ hand' = [w \in Workers |-> IF w[2] = g THEN Nothing ELSE hand[w]]
  /\ \E c \in Served : cache' = [cache EXCEPT ![g] = c]
  /\ UNCHANGED <<rows, oldest, issued, open, pending, stored>>

\* The steps of whoever has something in hand.
Works(w) ==
  \/ Write(w) \/ SetCache(w) \/ Load(w) \/ DeleteRow(w) \/ Uncache(w)
  \/ CreateOp(w) \/ RenewNext(w) \/ ReplaceAll(w)

Issues(j) == JobAnswer(j) \/ Finish(j)

Asked(w) ==
  \/ Upload(w, ByHostname)
  \/ \E r \in Stored : Upload(w, r.id) \/ Reload(w, r) \/ Delete(w, r) \/ RenewNow(w, r)
  \/ IssueAsync(w)

GoesOn(w) == \/ Works(w)
             \/ w \in Jobs /\ Issues(w)
             \/ w[1] = "reload" /\ ReloadTick(w[2])

Next ==
  \/ \E w \in Workers : GoesOn(w) \/ RenewSuccess(w) \/ RenewFailure(w)
  \/ \E w \in Requests \X Gateways : Asked(w)
  \/ \E g \in Gateways : RenewTick(g) \/ Crash(g)
  \/ \E id \in Ids : Touch(id)
  \/ ExpireStale

\* A goroutine that runs goes on; an order has a time limit; the reconciliation
\* and the clean-up are periodic.  The CA need not answer a renewal, and nobody
\* need ask for anything.
Fairness ==
  /\ \A w \in Workers : WF_vars(GoesOn(w))
  /\ WF_vars(ExpireStale)

Spec == Init /\ [][Next]_vars
FairSpec == Spec /\ Fairness

------------------------------------------------------------------------------
(* Properties.                                                             *)

\* At most one operation of a hostname is open, at most one job works at it, and
\* whoever works has it open.  Hence two jobs of a hostname never order side by
\* side, whatever crashes, is lost or is cleaned up in between (IssueAsync, the
\* index of migration 0017, ExpireStale).  Renewals order too, without an
\* operation: of those it says nothing.
OneJob ==
  /\ \A o, p \in open : o = p
  /\ \A j \in Jobs : hand[j].at # "idle" => j[3] \in open
  /\ \A j, k \in Jobs : hand[j].at # "idle" /\ hand[k].at # "idle" => j = k

\* What a gateway serves, and what it is about to serve, has been in the
\* database: never the certificate of an upload or an order whose write failed.
ServedWasStored ==
  /\ \A g \in Gateways : cache[g] \in stored \cup {0}
  /\ \A w \in Workers : hand[w].at \in {"set", "load", "replace"} => hand[w].mat \in stored \cup {0}
  /\ \A r \in Stored : r.mat \in stored

\* A goroutine has in hand what its next step needs.
HandsFull == \A w \in Workers :
  /\ hand[w].at = "write" => hand[w].mat # 0
  /\ hand[w].at \in {"delete", "renewing"} => hand[w].id \in Ids

IInv == TypeOK /\ HandsFull /\ OneJob /\ ServedWasStored

\* The caches catch up with the database (main.go: the other instances converge
\* within the window of the reconciliation, the local change is idempotent):
\* whichever gateway did what, and though a reload that read before a write
\* replaces the cache after it, in the end each serves a certificate of a row,
\* and nothing once there is no row.
CachesCatchUp == \A g \in Gateways : <>[](cache[g] \in Served)

\* Again and again no operation is in the way of the next order, though the
\* gateway of one may die or fail to write its end.
OperationsEnd == []<>(open = {})

Converges == CachesCatchUp /\ OperationsEnd

\* The domain is set to pending to show that an order is in progress
\* (issue_async.go:57), and a failure does not degrade a domain that has a
\* certificate (:119): so it is not pending for ever.  It does not hold: the failure
\* leaves such a domain as it is, which is pending.
PendingEnds == pending ~> ~ pending

\* Those who order at the CA: jobs and renewals.
Ordering == {w \in Workers : hand[w].at \in {"order", "renewing"}}

\* Migration 0017: an operation is to issue or to renew, and one of a hostname is
\* in progress, so that it is not ordered twice and the CA does not limit it.  It
\* does not hold: a renewal records no operation and asks for none, so it runs
\* beside a job or beside another renewal (renew.go:144).
OneOrder == \A v, w \in Ordering : v = w

==============================================================================
