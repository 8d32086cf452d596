-------------------------- MODULE CertificatesProofs --------------------------
(* The invariant of Certificates, for any gateways and requests. *)
EXTENDS Certificates, TLAPS

\* What a goroutine may have in hand while the certificates in kept are stored.
Sound(h, kept) ==
  /\ h \in Hand
  /\ h.at = "write" => h.mat # 0
  /\ h.at \in {"delete", "renewing"} => h.id \in Ids
  /\ h.at \in {"set", "load", "replace"} => h.mat \in kept \cup {0}

\* The parts of the invariant that are about the rows and the caches.
RowsTyped == rows \in [Ids -> Row \cup {None}] /\ oldest \in Ids
RowsStored == \A id \in Ids : rows[id] # None => rows[id].mat \in stored
Caches == cache \in [Gateways -> 0..MaxCerts] /\ \A g \in Gateways : cache[g] \in stored \cup {0}
Rest0 == issued \in 0..MaxCerts /\ open \subseteq Ops /\ pending \in BOOLEAN /\ stored \subseteq Certs
         /\ events \in 0..MaxEvents
Hands == hand \in [Workers -> Hand] /\ \A w \in Workers : Sound(hand[w], stored)

LEMMA Parts == IInv <=> RowsTyped /\ RowsStored /\ Caches /\ Rest0 /\ Hands /\ OneJob
<1>1. (\A r \in Stored : r.mat \in stored) <=> RowsStored
  BY DEF Stored, RowsStored
<1>2. TypeOK <=> RowsTyped /\ cache \in [Gateways -> 0..MaxCerts] /\ Rest0 /\ hand \in [Workers -> Hand]
  BY DEF TypeOK, RowsTyped, Rest0
<1>3. hand \in [Workers -> Hand] =>
      ((\A w \in Workers : Sound(hand[w], stored))
        <=> HandsFull /\ \A w \in Workers : hand[w].at \in {"set", "load", "replace"}
                                            => hand[w].mat \in stored \cup {0})
  BY DEF Sound, HandsFull
<1> QED BY <1>1, <1>2, <1>3 DEF IInv, ServedWasStored, Caches, Hands

------------------------------------------------------------------------------
\* The records that the steps put in hand.
LEMMA NothingSound == \A kept : Sound(Nothing, kept)
  BY CertificatesAssumption DEF Nothing, Sound, Hand

LEMMA RestsSound == ASSUME NEW todo \in SUBSET Ids, NEW kept PROVE Sound(Rests(todo), kept)
<1>1. CASE todo = {}
  BY <1>1, NothingSound DEF Rests
<1>2. CASE todo # {}
  <2>1. Rests(todo) = [Nothing EXCEPT !.at = "next", !.todo = todo]
    BY <1>2 DEF Rests
  <2>2. Rests(todo) = [at |-> "next", id |-> None, mat |-> 0, todo |-> todo]
    BY <2>1 DEF Nothing
  <2>3. 0 \in 0..MaxCerts
    BY CertificatesAssumption
  <2>4. Rests(todo) \in Hand
    BY <2>2, <2>3 DEF Hand
  <2> QED BY <2>2, <2>4 DEF Sound
<1> QED BY <1>1, <1>2

LEMMA ReplaceSound ==
  ASSUME NEW c \in 0..MaxCerts, NEW kept, c \in kept \cup {0}
  PROVE  Sound([Nothing EXCEPT !.at = "replace", !.mat = c], kept)
  BY DEF Nothing, Sound, Hand

\* One goroutine goes on with something sound, while nothing stored is forgotten.
LEMMA OneHand ==
  ASSUME Hands, NEW w \in Workers, NEW h, hand' = [hand EXCEPT ![w] = h],
         stored \subseteq stored', Sound(h, stored')
  PROVE  Hands'
<1>1. h \in Hand
  BY DEF Sound
<1>2. hand' \in [Workers -> Hand]
  BY <1>1 DEF Hands
<1>3. ASSUME NEW v \in Workers PROVE Sound(hand'[v], stored')
  <2>1. CASE v = w
    BY <2>1 DEF Hands
  <2>2. CASE v # w
    <3>1. hand'[v] = hand[v] /\ Sound(hand[v], stored)
      BY <2>2 DEF Hands
    <3> QED BY <3>1 DEF Sound
  <2> QED BY <2>1, <2>2
<1> QED BY <1>2, <1>3 DEF Hands

\* Nobody takes up a job but whoever was at it.
LEMMA JobsKept ==
  ASSUME OneJob, Hands, NEW w \in Workers, NEW h, hand' = [hand EXCEPT ![w] = h],
         open' = open, w \notin Jobs \/ hand[w].at # "idle"
  PROVE  OneJob'
<1>1. \A j \in Jobs : hand'[j].at # "idle" => hand[j].at # "idle"
  BY DEF Hands, Workers
<1> QED BY <1>1 DEF OneJob

LEMMA Asking == \A w \in Requests \X Gateways : w \in Workers /\ w \notin Jobs
  BY CertificatesAssumption DEF Workers, Jobs

LEMMA Loops == \A g \in Gateways : /\ <<"renew", g>> \in Workers /\ <<"renew", g>> \notin Jobs
                                   /\ <<"reload", g>> \in Workers /\ <<"reload", g>> \notin Jobs
  BY DEF Workers, Jobs

\* A row is saved with a certificate that exists.
LEMMA Saving ==
  ASSUME RowsTyped, RowsStored, Caches, stored \subseteq Certs, NEW r \in Row, Save(r), UNCHANGED cache
  PROVE  /\ RowsTyped' /\ RowsStored' /\ Caches' /\ stored' \subseteq Certs
         /\ stored \subseteq stored' /\ r.mat \in stored'
<1>1. r.id \in Ids /\ r.mat \in Certs
  BY DEF Row
<1>2. Other(r.id) \in Ids
  BY <1>1 DEF Other, Ids
<1>3. RowsTyped'
  BY <1>1, <1>2 DEF RowsTyped, Save
<1>4. \A id \in Ids : rows'[id] = IF id = r.id THEN r ELSE rows[id]
  BY DEF Save, RowsTyped
<1>5. RowsStored'
  BY <1>4 DEF RowsStored, Save
<1> QED BY <1>1, <1>3, <1>5 DEF Save, Caches

LEMMA Leaving ==
  ASSUME Hands, OneJob, NEW w \in Workers, NEW end \in {"finish", "failed"}, Leaves(w, end),
         hand[w].at # "idle", stored' = stored, open' = open
  PROVE  Hands' /\ OneJob'
<1>1. hand[w] \in Hand
  BY DEF Hands
<1>2. CASE w[1] = "job"
  <2> DEFINE h == [Nothing EXCEPT !.at = end]
  <2>1. hand' = [hand EXCEPT ![w] = h]
    BY <1>2 DEF Leaves
  <2>2. Sound(h, stored')
    BY CertificatesAssumption DEF Nothing, Sound, Hand
  <2> HIDE DEF h
  <2>3. Hands'
    BY <2>1, <2>2, OneHand
  <2> QED BY <2>1, <2>3, JobsKept
<1>3. CASE w[1] # "job"
  <2> DEFINE h == Rests(hand[w].todo)
  <2>1. hand' = [hand EXCEPT ![w] = h]
    BY <1>3 DEF Leaves
  <2>2. Sound(h, stored')
    BY <1>1, RestsSound DEF Hand
  <2> HIDE DEF h
  <2>3. Hands'
    BY <2>1, <2>2, OneHand
  <2> QED BY <2>1, <2>3, JobsKept
<1> QED BY <1>2, <1>3

\* A row with a certificate that exists is saved and goes to the cache next.
LEMMA SavedToCache ==
  ASSUME IInv, NEW w \in Workers, NEW r \in Row, Save(r), ToCache(w, r.mat),
         hand[w].at # "idle", UNCHANGED <<cache, open>>
  PROVE  RowsTyped' /\ RowsStored' /\ Caches' /\ stored' \subseteq Certs /\ Hands' /\ OneJob'
<1> DEFINE h == [Nothing EXCEPT !.at = "set", !.mat = r.mat, !.todo = hand[w].todo]
<1>1. RowsTyped /\ RowsStored /\ Caches /\ Rest0 /\ Hands /\ OneJob
  BY Parts
<1>2. /\ RowsTyped' /\ RowsStored' /\ Caches' /\ stored' \subseteq Certs
      /\ stored \subseteq stored' /\ r.mat \in stored'
  BY <1>1, Saving DEF Rest0
<1>3. hand' = [hand EXCEPT ![w] = h]
  BY DEF ToCache
<1>4. Sound(h, stored')
  <2>1. hand[w].todo \in SUBSET Ids
    BY <1>1 DEF Hands, Hand
  <2>2. r.mat \in 0..MaxCerts
    BY CertificatesAssumption DEF Row, Certs
  <2> QED BY <1>2, <2>1, <2>2 DEF Nothing, Sound, Hand
<1> HIDE DEF h
<1>5. Hands'
  BY <1>1, <1>2, <1>3, <1>4, OneHand
<1>6. OneJob'
  BY <1>1, <1>3, JobsKept
<1> QED BY <1>2, <1>5, <1>6

------------------------------------------------------------------------------
\* The initial states satisfy the invariant.
LEMMA InitInv == Init => IInv
<1> SUFFICES ASSUME Init PROVE IInv
  OBVIOUS
<1>1. 1 \in Ids /\ 1 \in Certs
  BY CertificatesAssumption DEF Ids, Certs
<1>2. \A s \in Sources : New(1, 1, s) \in Row /\ New(1, 1, s).mat = 1 /\ New(1, 1, s) # None
  BY <1>1, CertificatesAssumption DEF New, Row
<1>3. PICK s \in Sources : \/ rows = [id \in Ids |-> None]
                           \/ rows = [id \in Ids |-> IF id = 1 THEN New(1, 1, s) ELSE None]
  BY DEF Init, Sources
<1>4. RowsTyped
  BY <1>1, <1>2, <1>3 DEF Init, RowsTyped
<1>5. issued \in 0..MaxCerts /\ stored = 1..issued /\ stored \subseteq Certs
  BY CertificatesAssumption DEF Init, Certs
<1>6. RowsStored
  BY <1>1, <1>2, <1>3, <1>5 DEF Init, RowsStored
<1>7. issued \in stored \cup {0}
  BY <1>5 DEF Init
<1>8. Caches
  BY <1>5, <1>7 DEF Init, Caches
<1>9. Rest0
  <2>1. open \subseteq Ops /\ pending \in BOOLEAN
    BY DEF Init
  <2>2. events \in 0..MaxEvents
    BY CertificatesAssumption DEF Init
  <2> QED BY <1>5, <2>1, <2>2 DEF Rest0
<1>10. Hands
  <2>1. Nothing \in Hand
    BY NothingSound DEF Sound
  <2> QED BY <2>1, NothingSound DEF Init, Hands
<1>11. OneJob
  BY DEF Init, OneJob, Workers, Nothing
<1> QED BY <1>4, <1>6, <1>8, <1>9, <1>10, <1>11, Parts

------------------------------------------------------------------------------
\* A goroutine begins or goes on, and only its hand and the caches change.
LEMMA HandOnly ==
  ASSUME IInv, NEW w \in Workers, NEW h, hand' = [hand EXCEPT ![w] = h], Sound(h, stored),
         w \notin Jobs \/ hand[w].at # "idle", UNCHANGED <<rows, oldest, open, stored>>,
         Caches', Rest0'
  PROVE  IInv'
<1>1. RowsTyped /\ RowsStored /\ Hands /\ OneJob
  BY Parts
<1>2. RowsTyped' /\ RowsStored'
  BY <1>1 DEF RowsTyped, RowsStored
<1>3. Hands'
  BY <1>1, OneHand
<1>4. OneJob'
  BY <1>1, JobsKept
<1>5. RowsTyped' /\ RowsStored' /\ Caches' /\ Rest0' /\ Hands' /\ OneJob'
  BY <1>2, <1>3, <1>4
<1>6. IInv' <=> RowsTyped' /\ RowsStored' /\ Caches' /\ Rest0' /\ Hands' /\ OneJob'
  BY Parts, PTL
<1> QED BY <1>5, <1>6

\* What administrators ask for.
LEMMA AskedStep == ASSUME IInv, NEW w \in Requests \X Gateways, Asked(w) PROVE IInv'
<1>1. w \in Workers /\ w \notin Jobs
  BY Asking
<1>2. RowsTyped /\ RowsStored /\ Caches /\ Rest0
  BY Parts
<1>3. \A c \in 0..MaxCerts : c \in Nat
  BY CertificatesAssumption
<1>4. ASSUME NEW id \in Ids \cup {None}, Upload(w, id) PROVE IInv'
  <2> DEFINE h == [Nothing EXCEPT !.at = "write", !.id = id, !.mat = issued + 1]
  <2>1. hand' = [hand EXCEPT ![w] = h] /\ issued' = issued + 1 /\ issued < MaxCerts
    BY <1>4 DEF Upload, Begin
  <2>2. issued + 1 \in 0..MaxCerts /\ issued + 1 # 0
    BY <1>2, <2>1, CertificatesAssumption DEF Rest0
  <2>3. Sound(h, stored)
    BY <2>2 DEF Sound, Nothing, Hand
  <2>4. Caches' /\ Rest0'
    BY <1>2, <1>4, <2>1, <2>2 DEF Caches, Rest0, Upload
  <2>5. UNCHANGED <<rows, oldest, open, stored>>
    BY <1>4 DEF Upload
  <2> HIDE DEF h
  <2> QED BY <1>1, <2>1, <2>3, <2>4, <2>5, HandOnly
<1>5. ASSUME NEW r \in Stored, Reload(w, r) PROVE IInv'
  <2> DEFINE h == [Nothing EXCEPT !.at = "load", !.mat = r.mat]
  <2>1. hand' = [hand EXCEPT ![w] = h]
    BY <1>5 DEF Reload, Begin
  <2>2. r.mat \in stored
    BY <1>2 DEF Stored, RowsStored
  <2>3. r.mat \in 0..MaxCerts
    <3>1. r.mat \in Certs
      BY <1>2, <2>2 DEF Rest0
    <3> QED BY <3>1, CertificatesAssumption DEF Certs
  <2>4. Sound(h, stored)
    BY <2>2, <2>3 DEF Sound, Nothing, Hand
  <2>5. Caches' /\ Rest0' /\ UNCHANGED <<rows, oldest, open, stored>>
    BY <1>2, <1>5 DEF Caches, Rest0, Reload
  <2> HIDE DEF h
  <2> QED BY <1>1, <2>1, <2>4, <2>5, HandOnly
<1>6. ASSUME NEW r \in Stored, Delete(w, r) PROVE IInv'
  <2>2. PICK id \in Ids : id = r.id
    BY <1>2 DEF Stored, RowsTyped, Row
  <2> DEFINE h == OfRow("delete", id, {})
  <2>1. hand' = [hand EXCEPT ![w] = h]
    BY <1>6, <2>2 DEF Delete, Begin
  <2>3. Sound(h, stored)
    <3>1. h = [at |-> "delete", id |-> id, mat |-> 0, todo |-> {}]
      BY DEF OfRow
    <3>2. 0 \in 0..MaxCerts
      BY CertificatesAssumption
    <3>3. h \in Hand
      BY <2>2, <3>1, <3>2 DEF Hand
    <3> QED BY <2>2, <3>1, <3>3 DEF Sound
  <2>4. Caches' /\ Rest0' /\ UNCHANGED <<rows, oldest, open, stored>>
    BY <1>2, <1>6, CertificatesAssumption DEF Caches, Rest0, Delete, Event
  <2> HIDE DEF h
  <2> QED BY <1>1, <2>1, <2>3, <2>4, HandOnly
<1>9. ASSUME NEW r \in Stored, RenewNow(w, r) PROVE IInv'
  <2>2. PICK id \in Ids : id = r.id
    BY <1>2 DEF Stored, RowsTyped, Row
  <2> DEFINE h == OfRow("renewing", id, {})
  <2>1. hand' = [hand EXCEPT ![w] = h]
    BY <1>9, <2>2 DEF RenewNow, Begin
  <2>3. Sound(h, stored)
    <3>1. h = [at |-> "renewing", id |-> id, mat |-> 0, todo |-> {}]
      BY DEF OfRow
    <3>2. 0 \in 0..MaxCerts
      BY CertificatesAssumption
    <3>3. h \in Hand
      BY <2>2, <3>1, <3>2 DEF Hand
    <3> QED BY <2>2, <3>1, <3>3 DEF Sound
  <2>4. Caches' /\ Rest0' /\ UNCHANGED <<rows, oldest, open, stored>>
    BY <1>2, <1>9, CertificatesAssumption DEF Caches, Rest0, RenewNow, Event
  <2> HIDE DEF h
  <2> QED BY <1>1, <2>1, <2>3, <2>4, HandOnly
<1>7. CASE IssueAsync(w)
  <2> DEFINE h == [Nothing EXCEPT !.at = "create"]
  <2>1. hand' = [hand EXCEPT ![w] = h]
    BY <1>7 DEF IssueAsync, Begin
  <2>2. Sound(h, stored)
    BY CertificatesAssumption DEF Sound, Nothing, Hand
  <2>3. Caches' /\ Rest0' /\ UNCHANGED <<rows, oldest, open, stored>>
    BY <1>2, <1>7 DEF Caches, Rest0, IssueAsync
  <2> HIDE DEF h
  <2> QED BY <1>1, <2>1, <2>2, <2>3, HandOnly
<1>8. ByHostname \in Ids \cup {None} /\ \A r \in Stored : r.id \in Ids
  BY <1>2 DEF ByHostname, RowsTyped, Stored, Row
<1> QED BY <1>4, <1>5, <1>6, <1>7, <1>8, <1>9 DEF Asked

------------------------------------------------------------------------------
\* A row is written: by an upload or a job, after a renewal, after a failure of one.
LEMMA WriteStep == ASSUME IInv, NEW w \in Workers, Write(w) PROVE IInv'
<1>1. RowsTyped /\ RowsStored /\ Caches /\ Rest0 /\ Hands /\ OneJob
  BY Parts
<1>2. hand[w].at = "write" /\ UNCHANGED <<issued, open, pending, cache>>
  BY DEF Write
<1>3. hand[w] \in Hand /\ hand[w].mat # 0
  BY <1>1, <1>2 DEF Hands, Sound
<1>4. hand[w].mat \in Certs
  BY <1>3, CertificatesAssumption DEF Hand, Certs
<1>5. \A r \in Written(w) : r \in Row
  <2>1. Source(w) \in Sources
    BY DEF Source, Sources
  <2>2. \A id \in Ids : New(id, hand[w].mat, Source(w)) \in Row
    BY <1>4, <2>1 DEF New, Row
  <2>4. CASE hand[w].id = None
    BY <2>2, <2>4 DEF Written, Forgotten
  <2>5. CASE hand[w].id # None
    <3>1. hand[w].id \in Ids
      BY <1>3, <2>5 DEF Hand
    <3>2. \A r \in {rows[hand[w].id]} \ {None} : r.id \in Ids
      BY <1>1, <3>1 DEF RowsTyped, Row
    <3> QED BY <2>2, <2>5, <3>2 DEF Written
  <2> QED BY <2>4, <2>5
<1>6. ASSUME NEW r \in Written(w), Save(r), ToCache(w, r.mat), UNCHANGED events PROVE IInv'
  <2>1. RowsTyped' /\ RowsStored' /\ Caches' /\ stored' \subseteq Certs /\ Hands' /\ OneJob'
    BY <1>2, <1>5, <1>6, SavedToCache
  <2>2. Rest0'
    BY <1>1, <1>2, <1>6, <2>1 DEF Rest0
  <2> QED BY <2>1, <2>2, Parts, PTL
<1>7. ASSUME Unsaved, Leaves(w, "failed"), events' \in 0..MaxEvents PROVE IInv'
  <2>1. Hands' /\ OneJob'
    BY <1>1, <1>2, <1>7, Leaving DEF Unsaved
  <2>2. RowsTyped' /\ RowsStored' /\ Caches' /\ Rest0'
    BY <1>1, <1>2, <1>7 DEF Unsaved, RowsTyped, RowsStored, Caches, Rest0
  <2> QED BY <2>1, <2>2, Parts, PTL
<1>8. Event \/ UNCHANGED events => events' \in 0..MaxEvents
  BY <1>1, CertificatesAssumption DEF Event, Rest0
<1> QED BY <1>6, <1>7, <1>8 DEF Write

LEMMA RenewalStep == ASSUME IInv, NEW w \in Workers, RenewSuccess(w) \/ RenewFailure(w) PROVE IInv'
<1>1. RowsTyped /\ RowsStored /\ Caches /\ Rest0 /\ Hands /\ OneJob
  BY Parts
<1>2. hand[w].at = "renewing" /\ UNCHANGED <<open, pending, cache>>
  BY DEF RenewSuccess, RenewFailure
<1>3. hand[w] \in Hand /\ hand[w].id \in Ids
  BY <1>1, <1>2 DEF Hands, Sound
<1>4. rows[hand[w].id] # None => rows[hand[w].id] \in Row
  BY <1>1, <1>3 DEF RowsTyped
<1>5. issued' \in 0..MaxCerts /\ events' \in 0..MaxEvents
  BY <1>1, CertificatesAssumption DEF RenewSuccess, RenewFailure, Rest0, Event
<1>6. ASSUME Unsaved, Leaves(w, "failed") PROVE IInv'
  <2>1. Hands' /\ OneJob'
    BY <1>1, <1>2, <1>6, Leaving DEF Unsaved
  <2>2. RowsTyped' /\ RowsStored' /\ Caches' /\ Rest0'
    BY <1>1, <1>2, <1>5, <1>6 DEF Unsaved, RowsTyped, RowsStored, Caches, Rest0
  <2> QED BY <2>1, <2>2, Parts, PTL
<1>7. ASSUME rows[hand[w].id] # None, issued < MaxCerts, ToCache(w, issued + 1),
             Save(New(rows[hand[w].id].id, issued + 1, "acme"))
      PROVE  IInv'
  <2> DEFINE r == New(rows[hand[w].id].id, issued + 1, "acme")
  <2>1. rows[hand[w].id] # None /\ Save(r) /\ ToCache(w, issued + 1)
    BY <1>7
  <2>2. issued + 1 \in Certs
    BY <1>1, <1>7, CertificatesAssumption DEF Rest0, Certs
  <2>3. r \in Row /\ r.mat = issued + 1
    BY <1>4, <2>1, <2>2 DEF New, Row, Sources
  <2> HIDE DEF r
  <2>4. ToCache(w, r.mat)
    BY <2>1, <2>3
  <2>5. RowsTyped' /\ RowsStored' /\ Caches' /\ stored' \subseteq Certs /\ Hands' /\ OneJob'
    BY <1>2, <2>1, <2>3, <2>4, SavedToCache
  <2>6. Rest0'
    BY <1>1, <1>2, <1>5, <2>5 DEF Rest0
  <2> QED BY <2>5, <2>6, Parts, PTL
<1>8. CASE RenewFailure(w) /\ rows[hand[w].id] # None
  <2> DEFINE r == rows[hand[w].id]
  <2>1. r \in Row /\ Save(r) /\ Leaves(w, "failed")
    BY <1>4, <1>8 DEF RenewFailure
  <2>2. r.mat \in stored
    BY <1>1, <1>3, <1>8 DEF RowsStored
  <2> HIDE DEF r
  <2>3. stored' = stored
    BY <2>1, <2>2 DEF Save
  <2>4. Hands' /\ OneJob'
    BY <1>1, <1>2, <2>1, <2>3, Leaving
  <2>5. RowsTyped' /\ RowsStored' /\ Caches'
    BY <1>1, <1>2, <2>1, Saving DEF Rest0
  <2>6. Rest0'
    BY <1>1, <1>2, <1>5, <2>3 DEF Rest0
  <2> QED BY <2>4, <2>5, <2>6, Parts, PTL
<1>9. CASE RenewSuccess(w)
  BY <1>6, <1>7, <1>9 DEF RenewSuccess
<1>10. CASE RenewFailure(w)
  BY <1>6, <1>8, <1>10 DEF RenewFailure
<1> QED BY <1>9, <1>10

------------------------------------------------------------------------------
\* The other steps of whoever has something in hand.
LEMMA CacheStep ==
  ASSUME IInv, NEW w \in Workers, SetCache(w) \/ Load(w) \/ ReplaceAll(w) \/ Uncache(w)
  PROVE  IInv'
<1>1. RowsTyped /\ RowsStored /\ Caches /\ Rest0 /\ Hands /\ OneJob
  BY Parts
<1>2. UNCHANGED <<rows, oldest, issued, open, stored, events>> /\ hand[w].at # "idle"
  BY DEF SetCache, Load, ReplaceAll, Uncache
<1>3. RowsTyped' /\ RowsStored'
  BY <1>1, <1>2 DEF RowsTyped, RowsStored
<1>4. pending' \in BOOLEAN
  <2>1. CASE Uncache(w)
    BY <2>1 DEF Uncache
  <2>2. CASE SetCache(w) \/ Load(w) \/ ReplaceAll(w)
    BY <1>1, <2>2 DEF SetCache, Load, ReplaceAll, Rest0
  <2> QED BY <2>1, <2>2
<1>5. Rest0'
  BY <1>1, <1>2, <1>4 DEF Rest0
<1>6. PICK c : cache' = [cache EXCEPT ![w[2]] = c] /\ c \in stored \cup {0} /\ c \in 0..MaxCerts
  <2>1. CASE Uncache(w)
    <3>1. cache' = [cache EXCEPT ![w[2]] = 0]
      BY <2>1 DEF Uncache
    <3>2. 0 \in 0..MaxCerts
      BY CertificatesAssumption
    <3> QED BY <3>1, <3>2
  <2>2. CASE SetCache(w) \/ Load(w) \/ ReplaceAll(w)
    <3>1. hand[w].at \in {"set", "load", "replace"} /\ cache' = [cache EXCEPT ![w[2]] = hand[w].mat]
      BY <2>2 DEF SetCache, Load, ReplaceAll
    <3>2. hand[w].mat \in stored \cup {0} /\ hand[w] \in Hand
      BY <1>1, <3>1 DEF Hands, Sound
    <3> QED BY <3>1, <3>2 DEF Hand
  <2> QED BY <2>1, <2>2
<1>7. Caches'
  BY <1>1, <1>2, <1>6 DEF Caches
<1>8. CASE SetCache(w)
  <2>1. Hands' /\ OneJob'
    BY <1>1, <1>2, <1>8, Leaving DEF SetCache
  <2> QED BY <1>3, <1>5, <1>7, <2>1, Parts, PTL
<1>9. CASE Load(w) \/ ReplaceAll(w) \/ Uncache(w)
  <2>1. hand' = [hand EXCEPT ![w] = Nothing]
    BY <1>9 DEF Load, ReplaceAll, Uncache, Rest
  <2> QED BY <1>2, <1>5, <1>7, <2>1, NothingSound, HandOnly
<1> QED BY <1>8, <1>9

LEMMA DeleteStep == ASSUME IInv, NEW w \in Workers, DeleteRow(w) PROVE IInv'
<1>1. RowsTyped /\ RowsStored /\ Caches /\ Rest0 /\ Hands /\ OneJob
  BY Parts
<1>2. hand[w].at = "delete" /\ UNCHANGED <<issued, open, pending, cache, stored, events>>
  BY DEF DeleteRow
<1>3. hand[w].id \in Ids
  BY <1>1, <1>2 DEF Hands, Sound
<1> DEFINE id == hand[w].id
<1>4. rows' = [rows EXCEPT ![id] = None] /\ oldest' \in {1, Other(id)}
  BY DEF DeleteRow
<1>5. 1 \in Ids /\ Other(id) \in Ids
  BY <1>3 DEF Ids, Other
<1>6. RowsTyped' /\ RowsStored' /\ Caches' /\ Rest0'
  BY <1>1, <1>2, <1>4, <1>5 DEF RowsTyped, RowsStored, Caches, Rest0
<1>7. PICK h \in {Nothing, [Nothing EXCEPT !.at = "uncache"]} : hand' = [hand EXCEPT ![w] = h]
  BY DEF DeleteRow, Rest
<1>8. Sound([Nothing EXCEPT !.at = "uncache"], stored')
  BY CertificatesAssumption DEF Sound, Nothing, Hand
<1>9. Sound(h, stored')
  BY <1>8, NothingSound
<1>10. Hands'
  BY <1>1, <1>2, <1>7, <1>9, OneHand
<1>11. OneJob'
  BY <1>1, <1>2, <1>7, JobsKept
<1> QED BY <1>6, <1>10, <1>11, Parts, PTL

LEMMA ListStep ==
  ASSUME IInv, NEW w \in Workers, RenewNext(w) PROVE IInv'
<1>1. RowsTyped /\ RowsStored /\ Caches /\ Rest0 /\ Hands /\ OneJob
  BY Parts
<1>2. hand[w].at = "next" /\ UNCHANGED <<rows, oldest, issued, open, pending, cache, stored, events>>
  BY DEF RenewNext
<1>3. hand[w].todo \in SUBSET Ids
  BY <1>1 DEF Hands, Hand
<1>4. PICK t \in hand[w].todo : hand' = [hand EXCEPT ![w] = OfRow("renewing", t, hand[w].todo \ {t})]
  BY DEF RenewNext
<1> DEFINE h == OfRow("renewing", t, hand[w].todo \ {t})
<1>5. Sound(h, stored)
  <2>1. h = [at |-> "renewing", id |-> t, mat |-> 0, todo |-> hand[w].todo \ {t}]
    BY DEF OfRow
  <2>2. 0 \in 0..MaxCerts
    BY CertificatesAssumption
  <2>3. h \in Hand
    BY <1>3, <2>1, <2>2 DEF Hand
  <2> QED BY <1>3, <2>1, <2>3 DEF Sound
<1>6. hand' = [hand EXCEPT ![w] = h]
  BY <1>4
<1>7. Caches' /\ Rest0'
  BY <1>1, <1>2 DEF Caches, Rest0
<1> HIDE DEF h
<1> QED BY <1>2, <1>5, <1>6, <1>7, HandOnly

------------------------------------------------------------------------------
\* Operations and their jobs.
LEMMA CreateStep == ASSUME IInv, NEW w \in Workers, CreateOp(w) PROVE IInv'
<1>1. RowsTyped /\ RowsStored /\ Caches /\ Rest0 /\ Hands /\ OneJob
  BY Parts
<1>2. hand[w].at = "create" /\ UNCHANGED <<rows, oldest, issued, cache, stored, events>>
  BY DEF CreateOp
<1>3. RowsTyped' /\ RowsStored' /\ Caches'
  BY <1>1, <1>2 DEF RowsTyped, RowsStored, Caches
<1>4. CASE Rest(w) /\ UNCHANGED <<open, pending>>
  <2>1. Rest0'
    BY <1>1, <1>2, <1>4 DEF Rest0
  <2>2. hand' = [hand EXCEPT ![w] = Nothing]
    BY <1>4 DEF Rest
  <2> QED BY <1>2, <1>3, <1>4, <2>1, <2>2, NothingSound, HandOnly
<1>5. ASSUME NEW o \in Ops, Admits(o), open' = open \cup {o}, pending' = TRUE,
             hand' = [hand EXCEPT ![w] = Nothing,
                                  ![<<"job", w[2], o>>] = [Nothing EXCEPT !.at = "order"]]
      PROVE  IInv'
  <2> DEFINE h == [Nothing EXCEPT !.at = "order"]
  <2>1. Rest0'
    <3>1. open' \subseteq Ops /\ pending' \in BOOLEAN
      BY <1>1, <1>5 DEF Rest0
    <3> QED BY <1>1, <1>2, <3>1 DEF Rest0
  <2>2. Sound(h, stored') /\ Sound(Nothing, stored')
    BY NothingSound, CertificatesAssumption DEF Sound, Nothing, Hand
  <2>3. h \in Hand /\ Nothing \in Hand
    BY <2>2 DEF Sound
  <2>4. open = {} /\ \A j \in Jobs : hand[j].at = "idle"
    <3>1. open = {}
      BY <1>5 DEF Admits
    <3> QED BY <1>1, <3>1 DEF OneJob
  <2> HIDE DEF h
  <2>5. \A v \in Workers : hand'[v] \in {h, Nothing, hand[v]}
    BY <1>1, <1>5 DEF Hands, h
  <2>6. hand' \in [Workers -> Hand]
    BY <1>1, <1>5, <2>3 DEF Hands, h
  <2>7. Hands'
    BY <1>1, <1>2, <2>2, <2>5, <2>6 DEF Hands
  <2>8. Nothing.at = "idle" /\ Jobs \subseteq Workers
    BY DEF Nothing, Workers
  <2>9. \A j \in Jobs : hand'[j].at # "idle" => j = <<"job", w[2], o>>
    BY <1>1, <1>5, <2>4, <2>8 DEF Hands
  <2>10. \A j \in Jobs : hand'[j].at # "idle" => j[3] \in open'
    BY <1>5, <2>9
  <2>11. OneJob'
    BY <1>5, <2>4, <2>9, <2>10 DEF OneJob
  <2> QED BY <1>3, <2>1, <2>7, <2>11, Parts, PTL
<1> QED BY <1>4, <1>5 DEF CreateOp

LEMMA JobStep == ASSUME IInv, NEW j \in Jobs, Issues(j) PROVE IInv'
<1>1. RowsTyped /\ RowsStored /\ Caches /\ Rest0 /\ Hands /\ OneJob
  BY Parts
<1>2. j \in Workers
  BY DEF Workers
<1>3. hand[j].at # "idle" /\ UNCHANGED <<rows, oldest, cache, stored>>
  BY DEF Issues, JobAnswer, Finish
<1>4. hand[j] \in Hand
  BY <1>1, <1>2 DEF Hands
<1>5. CASE JobAnswer(j) /\ Stage(j, "failed") /\ UNCHANGED issued
  <2> DEFINE h == [hand[j] EXCEPT !.at = "failed"]
  <2>1. hand' = [hand EXCEPT ![j] = h]
    BY <1>5, <1>2, <1>1 DEF Stage, Hands
  <2>2. Sound(h, stored)
    BY <1>4 DEF Sound, Hand
  <2>3. Caches' /\ Rest0' /\ UNCHANGED open
    BY <1>1, <1>5 DEF Caches, Rest0, JobAnswer
  <2> HIDE DEF h
  <2> QED BY <1>2, <1>3, <2>1, <2>2, <2>3, HandOnly
<1>6. CASE JobAnswer(j) /\ issued < MaxCerts /\ issued' = issued + 1
           /\ hand' = [hand EXCEPT ![j] = [Nothing EXCEPT !.at = "write", !.id = ByHostname,
                                                          !.mat = issued + 1]]
  <2>1. PICK id \in Ids \cup {None} : id = ByHostname
    BY <1>1 DEF ByHostname, RowsTyped
  <2> DEFINE h == [Nothing EXCEPT !.at = "write", !.id = id, !.mat = issued + 1]
  <2>2. hand' = [hand EXCEPT ![j] = h]
    BY <1>6, <2>1
  <2>3. issued + 1 \in 0..MaxCerts /\ issued + 1 # 0
    BY <1>1, <1>6, CertificatesAssumption DEF Rest0
  <2>4. Sound(h, stored)
    BY <2>3 DEF Sound, Nothing, Hand
  <2>5. Caches' /\ Rest0' /\ UNCHANGED open
    BY <1>1, <1>6, <2>3 DEF Caches, Rest0, JobAnswer
  <2> HIDE DEF h
  <2> QED BY <1>2, <1>3, <2>2, <2>4, <2>5, HandOnly
<1>7. CASE Finish(j)
  <2>1. hand' = [hand EXCEPT ![j] = Nothing] /\ open' \in {open, open \ {j[3]}} /\ issued' = issued
    BY <1>7 DEF Finish, Rest
  <2>2. pending' \in BOOLEAN
    BY <1>7 DEF Finish
  <2>3. events' \in 0..MaxEvents
    BY <1>1, <1>7, CertificatesAssumption DEF Finish, Event, Rest0
  <2>4. Rest0'
    BY <1>1, <1>3, <2>1, <2>2, <2>3 DEF Rest0
  <2>5. RowsTyped' /\ RowsStored' /\ Caches'
    BY <1>1, <1>3 DEF RowsTyped, RowsStored, Caches
  <2>6. Hands'
    BY <1>1, <1>2, <1>3, <2>1, NothingSound, OneHand
  <2>7. Nothing.at = "idle" /\ Jobs \subseteq Workers
    BY DEF Nothing, Workers
  <2>8. \A k \in Jobs : hand[k].at # "idle" => k = j
    BY <1>1, <1>3 DEF OneJob
  <2>9. \A k \in Jobs : hand'[k].at = "idle"
    BY <1>1, <2>1, <2>7, <2>8 DEF Hands
  <2>10. OneJob'
    BY <1>1, <2>1, <2>9 DEF OneJob
  <2> QED BY <2>4, <2>5, <2>6, <2>10, Parts, PTL
<1> QED BY <1>5, <1>6, <1>7 DEF Issues, JobAnswer

------------------------------------------------------------------------------
\* The loops, the clean-up and crashes.
LEMMA ServedStored ==
  ASSUME RowsTyped, RowsStored, stored \subseteq Certs, NEW c \in Served
  PROVE  c \in stored \cup {0} /\ c \in 0..MaxCerts
<1>1. CASE Stored = {}
  BY <1>1, CertificatesAssumption DEF Served
<1>2. CASE Stored # {}
  <2>1. c \in stored
    BY <1>2 DEF Served, Stored, RowsStored
  <2>2. c \in Certs
    BY <2>1
  <2> QED BY <2>1, <2>2, CertificatesAssumption DEF Certs
<1> QED BY <1>1, <1>2

LEMMA TickStep ==
  ASSUME IInv, NEW g \in Gateways, RenewTick(g) \/ ReloadTick(g)
  PROVE  IInv'
<1>1. RowsTyped /\ RowsStored /\ Caches /\ Rest0 /\ Hands /\ OneJob
  BY Parts
<1>2. UNCHANGED <<rows, oldest, issued, open, pending, cache, stored, events>>
  BY DEF RenewTick, ReloadTick
<1>3. Caches' /\ Rest0'
  BY <1>1, <1>2 DEF Caches, Rest0
<1>4. CASE RenewTick(g)
  <2>1. PICK due \in SUBSET Renewable :
          due # {} /\ hand' = [hand EXCEPT ![<<"renew", g>>] = [Nothing EXCEPT !.at = "next", !.todo = due]]
    BY <1>4 DEF RenewTick, Begin
  <2> DEFINE h == Rests(due)
             w == <<"renew", g>>
  <2>2. h = [Nothing EXCEPT !.at = "next", !.todo = due]
    BY <2>1 DEF Rests
  <2>3. Sound(h, stored)
    BY RestsSound DEF Renewable
  <2>4. hand' = [hand EXCEPT ![w] = h] /\ w \in Workers /\ w \notin Jobs
    BY <2>1, <2>2, Loops
  <2> HIDE DEF h, w
  <2> QED BY <1>2, <1>3, <2>3, <2>4, HandOnly
<1>5. CASE ReloadTick(g)
  <2>1. PICK c \in Served :
          hand' = [hand EXCEPT ![<<"reload", g>>] = [Nothing EXCEPT !.at = "replace", !.mat = c]]
    BY <1>5 DEF ReloadTick, Begin
  <2> DEFINE h == [Nothing EXCEPT !.at = "replace", !.mat = c]
             w == <<"reload", g>>
  <2>2. c \in stored \cup {0} /\ c \in 0..MaxCerts
    BY <1>1, ServedStored DEF Rest0
  <2>3. Sound(h, stored)
    BY <2>2, ReplaceSound
  <2>4. hand' = [hand EXCEPT ![w] = h] /\ w \in Workers /\ w \notin Jobs
    BY <2>1, Loops
  <2> HIDE DEF h, w
  <2> QED BY <1>2, <1>3, <2>3, <2>4, HandOnly
<1> QED BY <1>4, <1>5

LEMMA CrashStep == ASSUME IInv, NEW g \in Gateways, Crash(g) PROVE IInv'
<1>1. RowsTyped /\ RowsStored /\ Caches /\ Rest0 /\ Hands /\ OneJob
  BY Parts
<1>2. UNCHANGED <<rows, oldest, issued, open, pending, stored>>
  BY DEF Crash
<1>3. events' \in 0..MaxEvents
  BY <1>1, CertificatesAssumption DEF Crash, Event, Rest0
<1>4. PICK c \in Served : cache' = [cache EXCEPT ![g] = c]
  BY DEF Crash
<1>5. c \in stored \cup {0} /\ c \in 0..MaxCerts
  BY <1>1, ServedStored DEF Rest0
<1>6. RowsTyped' /\ RowsStored' /\ Caches' /\ Rest0'
  BY <1>1, <1>2, <1>3, <1>4, <1>5 DEF RowsTyped, RowsStored, Caches, Rest0
<1>7. Nothing \in Hand /\ Nothing.at = "idle"
  BY NothingSound DEF Sound, Nothing
<1>8. \A w \in Workers : hand'[w] \in {Nothing, hand[w]}
  BY DEF Crash
<1>9. hand' \in [Workers -> Hand]
  BY <1>1, <1>7 DEF Crash, Hands
<1>10. Hands'
  BY <1>1, <1>2, <1>8, <1>9, NothingSound DEF Hands
<1>11. \A j \in Jobs : hand'[j].at # "idle" => hand[j].at # "idle"
  BY <1>7, <1>8 DEF Workers
<1>12. OneJob'
  BY <1>1, <1>2, <1>11 DEF OneJob
<1> QED BY <1>6, <1>10, <1>12, Parts, PTL

\* Only operations that nobody works at are ended.
LEMMA ExpireStep == ASSUME IInv, ExpireStale PROVE IInv'
<1>1. RowsTyped /\ RowsStored /\ Caches /\ Rest0 /\ Hands /\ OneJob
  BY Parts
<1>2. /\ open' = {o \in open : ~ Stale(o)}
      /\ UNCHANGED <<rows, oldest, issued, pending, cache, hand, stored, events>>
  BY DEF ExpireStale
<1>3. RowsTyped' /\ RowsStored' /\ Caches' /\ Rest0' /\ Hands'
  BY <1>1, <1>2 DEF RowsTyped, RowsStored, Caches, Rest0, Hands
<1>4. ASSUME NEW j \in Jobs, hand[j].at # "idle" PROVE j[3] \in open'
  <2>1. PICK g \in Gateways, o \in Ops : j = <<"job", g, o>>
    BY DEF Jobs
  <2>2. Working(j[3])
    BY <1>4, <2>1 DEF Working
  <2>3. j[3] \in open
    BY <1>1, <1>4 DEF OneJob
  <2> QED BY <1>2, <2>2, <2>3 DEF Stale
<1>5. OneJob'
  BY <1>1, <1>2, <1>4 DEF OneJob
<1> QED BY <1>3, <1>5, Parts, PTL

\* A row is written with what it holds.
LEMMA TouchStep == ASSUME IInv, NEW id \in Ids, Touch(id) PROVE IInv'
<1>1. RowsTyped /\ RowsStored /\ Caches /\ Rest0 /\ Hands /\ OneJob
  BY Parts
<1> DEFINE r == rows[id]
<1>2. /\ r # None /\ Save(r) /\ pending' \in BOOLEAN
      /\ UNCHANGED <<issued, open, cache, hand, events>>
  BY <1>1 DEF Touch, Rest0
<1>3. r \in Row /\ r.mat \in stored
  BY <1>1, <1>2 DEF RowsTyped, RowsStored
<1> HIDE DEF r
<1>4. stored' = stored
  BY <1>2, <1>3 DEF Save
<1>5. RowsTyped' /\ RowsStored' /\ Caches'
  BY <1>1, <1>2, <1>3, Saving DEF Rest0
<1>6. Rest0' /\ Hands' /\ OneJob'
  BY <1>1, <1>2, <1>4 DEF Rest0, Hands, OneJob
<1> QED BY <1>5, <1>6, Parts, PTL

LEMMA Stutter == ASSUME IInv, UNCHANGED vars PROVE IInv'
BY DEF vars, IInv, TypeOK, HandsFull, OneJob, ServedWasStored, Stored

LEMMA Step == IInv /\ [Next]_vars => IInv'
<1> SUFFICES ASSUME IInv, [Next]_vars PROVE IInv'
  OBVIOUS
<1>1. ASSUME NEW w \in Workers, Works(w) PROVE IInv'
  BY <1>1, WriteStep, CacheStep, DeleteStep, ListStep, CreateStep DEF Works
<1>2. ASSUME NEW w \in Workers, GoesOn(w) PROVE IInv'
  <2>1. CASE w \in Jobs /\ Issues(w)
    BY <2>1, JobStep
  <2>2. CASE w[1] = "reload" /\ ReloadTick(w[2])
    <3>1. w[2] \in Gateways
      BY DEF Workers, Jobs
    <3> QED BY <2>2, <3>1, TickStep
  <2> QED BY <1>1, <1>2, <2>1, <2>2 DEF GoesOn
<1>3. ASSUME NEW w \in Workers, RenewSuccess(w) \/ RenewFailure(w) PROVE IInv'
  BY <1>3, RenewalStep
<1>4. ASSUME NEW w \in Requests \X Gateways, Asked(w) PROVE IInv'
  BY <1>4, AskedStep
<1>5. ASSUME NEW g \in Gateways, RenewTick(g) \/ Crash(g) PROVE IInv'
  BY <1>5, TickStep, CrashStep
<1>6. CASE ExpireStale
  BY <1>6, ExpireStep
<1>7. CASE UNCHANGED vars
  BY <1>7, Stutter
<1>8. ASSUME NEW id \in Ids, Touch(id) PROVE IInv'
  BY <1>8, TouchStep
<1> QED BY <1>2, <1>3, <1>4, <1>5, <1>6, <1>7, <1>8 DEF Next

\* The invariant of the certificates of a hostname, for any gateways, requests
\* and bounds.
THEOREM Invariance == Spec => []IInv
  BY InitInv, Step, PTL DEF Spec

\* Two jobs of a hostname never work side by side (renewals are no jobs), and an
\* operation that somebody works at is never ended by somebody else.
THEOREM JobsExclusive == Spec => []OneJob
<1>1. IInv => OneJob
  BY DEF IInv
<1> QED BY Invariance, <1>1, PTL

\* No gateway serves a certificate that was never saved.
THEOREM ServesStored == Spec => []ServedWasStored
<1>1. IInv => ServedWasStored
  BY DEF IInv
<1> QED BY Invariance, <1>1, PTL

==============================================================================
