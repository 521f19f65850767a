---------------------- MODULE AutomationDelivery_proofs ----------------------
(***************************************************************************)
(* Safety of AutomationDelivery for any events, tests and bounds.          *)
(*                                                                         *)
(* The invariant IInv says what the lock of an attempt guards (Fenced,     *)
(* Alone), how a delivery and its jobs belong together (PairedOf), and     *)
(* that the failures of an open delivery's last job are attempts of the    *)
(* delivery or errors (CountedOf): so attempts alone give a job up no      *)
(* sooner than its delivery.                                               *)
(***************************************************************************)
EXTENDS AutomationDelivery, TLAPS

\* An event under way belongs to an open delivery, is signed with the secret the
\* connection has, and the connection may send.
Fenced ==
  /\ Locked => /\ connection.status \notin {"paused", "disconnected"}
               /\ signed = connection.secret
  /\ request # NoDelivery => Open(request)
  /\ \A k \in JobKeys : Sending(k) => Open(k[1])

Alone ==
  \A k \in JobKeys : Sending(k) =>
    request = NoDelivery /\ \A j \in JobKeys : Sending(j) => j = k

\* What has not been drained has no fan-out, what has not been fanned out no
\* delivery, and what has no delivery no job.
Upstream ==
  /\ \A e \in Events : outbox[e] \in {"absent", "pending"} => fanout[e] = "absent"
  /\ \A e \in Events : fanout[e] # "done" => delivery[e].status = "absent"
  /\ \A d \in Deliveries : delivery[d].status = "absent" =>
       delivery[d].attempts = 0 /\ delivery[d].recoveries = 0

Missing(k) == job[k].phase = "absent" /\ job[k].failures = 0 /\ job[k].errors = 0

\* Jobs of recoveries to come do not exist yet; a delivery that is not a first
\* test has the job of its last recovery, which has ended only if it has.
FutureOf(d) ==
  \A r \in 0 .. MaxRecoveries :
    r > delivery[d].recoveries \/ delivery[d].status = "absent" => Missing(<<d, r>>)

Served(d) == d \in Events \/ delivery[d].recoveries > 0

PairedOf(d) ==
  /\ delivery[d].status # "absent" /\ Served(d) => LastJob(d).phase # "absent"
  /\ Open(d) => LastJob(d).phase \notin {"returned", "completed"}

Failures(j) == j.failures + (IF j.phase = "raised" THEN 1 ELSE 0)

\* The attempts of an open delivery include the failures of its last job but for
\* its errors, so that without errors the job is not given up before the delivery.
CountedOf(d) ==
  /\ delivery[d].status = "dead_letter" => delivery[d].attempts = Allowed(d)
  /\ Open(d) =>
       /\ Failures(LastJob(d)) + MaxAttempts * delivery[d].recoveries
            <= delivery[d].attempts + LastJob(d).errors
       /\ LastJob(d).phase = "dead_letter" => LastJob(d).errors > 0

Book(d) == FutureOf(d) /\ PairedOf(d) /\ CountedOf(d)

IInv ==
  TypeOK /\ Fenced /\ Alone /\ VerifiedSecret /\ Upstream /\ \A d \in Deliveries : Book(d)

-------------------------------------------------------------------------------
LEMMA Keys ==
  /\ \A d \in Deliveries : \A r \in 0 .. MaxRecoveries : <<d, r>> \in JobKeys
  /\ \A k \in JobKeys : /\ k[1] \in Deliveries /\ k[2] \in 0 .. MaxRecoveries
                         /\ k = <<k[1], k[2]>>
BY DEF JobKeys

LEMMA Quotas ==
  /\ MaxAttempts \in Nat /\ MaxAttempts > 0
  /\ \A r \in Nat : /\ MaxAttempts * r \in Nat
                     /\ MaxAttempts * (1 + r) = MaxAttempts + MaxAttempts * r
                     /\ MaxAttempts * (1 + (r + 1)) = MaxAttempts + MaxAttempts * (1 + r)
                     /\ MaxAttempts * (r + 1) = MaxAttempts + MaxAttempts * r
BY DeliveryAssumption

LEMMA Moved ==
  ASSUME TypeOK, NEW k \in JobKeys, NEW p, job' = [job EXCEPT ![k].phase = p]
  PROVE /\ \A j \in JobKeys : j # k => job'[j] = job[j]
        /\ job'[k].phase = p /\ job'[k].failures = job[k].failures
        /\ job'[k].errors = job[k].errors
        /\ p \in {"waiting", "working", "sending", "returned", "raised", "broken", "completed",
                  "dead_letter"} =>
             job' \in [JobKeys -> JobRows]
BY DEF TypeOK, JobRows

LEMMA Turned ==
  ASSUME TypeOK, NEW d \in Deliveries, NEW s, delivery' = [delivery EXCEPT ![d].status = s]
  PROVE /\ \A b \in Deliveries : b # d => delivery'[b] = delivery[b]
        /\ delivery'[d].status = s /\ delivery'[d].attempts = delivery[d].attempts
        /\ delivery'[d].recoveries = delivery[d].recoveries
        /\ \A b \in Deliveries : Allowed(b)' = Allowed(b)
        /\ s \in {"pending", "failed", "delivered", "dead_letter", "cancelled"} =>
             delivery' \in [Deliveries -> DeliveryRows]
BY DEF TypeOK, DeliveryRows, Allowed

LEMMA Spare ==
  ASSUME TypeOK, NEW d \in Deliveries, Open(d)
  PROVE  ~(delivery[d].attempts >= Allowed(d)) /\ delivery[d].attempts < Allowed(d)
<1>1. delivery[d].attempts \in Nat /\ Allowed(d) \in Nat
  BY Quotas DEF TypeOK, DeliveryRows, Allowed
<1>2. delivery[d].attempts <= Allowed(d) /\ delivery[d].attempts # Allowed(d)
  BY DEF TypeOK
<1>. QED  BY <1>1, <1>2

LEMMA Others ==
  ASSUME IInv, NEW b \in Deliveries, delivery'[b] = delivery[b],
         \A r \in 0 .. MaxRecoveries : job'[<<b, r>>] = job[<<b, r>>]
  PROVE  Book(b)'
BY DEF IInv, TypeOK, DeliveryRows, Book, FutureOf, PairedOf, CountedOf, Served, Open, LastJob, Failures,
       Missing, Allowed

LEMMA JobOnly ==
  ASSUME IInv, NEW k \in JobKeys, job[k].phase # "absent", NEW b \in Deliveries,
         \A j \in JobKeys : j # k => job'[j] = job[j],
         job'[k].phase # "absent", job' \in [JobKeys -> JobRows],
         Failures(job'[k]) + job[k].errors <= Failures(job[k]) + job'[k].errors,
         k = <<k[1], delivery[k[1]].recoveries>> =>
           /\ job'[k].phase \in {"returned", "completed"} => ~Open(k[1])
           /\ job'[k].phase = "dead_letter" => ~Open(k[1]) \/ job'[k].errors > 0,
         delivery' = delivery
  PROVE  Book(b)'
<1>. USE Keys DEF IInv
<1>1. CASE b # k[1]
  <2>1. \A r \in 0 .. MaxRecoveries : job'[<<b, r>>] = job[<<b, r>>]
    BY <1>1
  <2>. QED  BY <2>1, Others
<1>2. CASE b = k[1]
  <2>1. delivery[b].recoveries \in 0 .. MaxRecoveries
    BY DEF TypeOK, DeliveryRows
  <2>2. \/ k = <<b, delivery[b].recoveries>> /\ LastJob(b) = job[k] /\ LastJob(b)' = job'[k]
        \/ LastJob(b)' = LastJob(b)
    BY <2>1 DEF LastJob
  <2>3. FutureOf(b)'
    BY <1>2, <2>1 DEF Book, FutureOf, Missing
  <2>4. PairedOf(b)'
    BY <1>2, <2>2 DEF Book, PairedOf, Served, Open
  <2>5. /\ Failures(LastJob(b)') + LastJob(b).errors <= Failures(LastJob(b)) + LastJob(b)'.errors
        /\ Failures(LastJob(b)) \in Nat /\ Failures(LastJob(b)') \in Nat
        /\ LastJob(b).errors \in Nat /\ LastJob(b)'.errors \in Nat
    BY <2>1, <2>2 DEF Failures, LastJob, TypeOK, JobRows
  <2>6. Open(b) /\ LastJob(b)'.phase = "dead_letter" => LastJob(b)'.errors > 0
    BY <1>2, <2>2 DEF Book, CountedOf
  <2>7. CountedOf(b)'
    BY <2>1, <2>5, <2>6, Quotas DEF Book, CountedOf, Open, Allowed, TypeOK, DeliveryRows
  <2>. QED  BY <2>3, <2>4, <2>7 DEF Book
<1>. QED  BY <1>1, <1>2

LEMMA RowsRecorded ==
  ASSUME NEW rows \in [Deliveries -> DeliveryRows], NEW d \in Deliveries,
         NEW s \in {"delivered", "failed", "dead_letter"}
  PROVE  [rows EXCEPT ![d].attempts = @ + 1, ![d].status = s] \in [Deliveries -> DeliveryRows]
<1>1. rows[d].attempts + 1 \in Nat
  BY DEF DeliveryRows
<1>2. [rows EXCEPT ![d].attempts = @ + 1] \in [Deliveries -> DeliveryRows]
  BY <1>1 DEF DeliveryRows
<1>. QED  BY <1>2 DEF DeliveryRows

LEMMA Recorded ==
  ASSUME IInv, NEW d \in Deliveries, NEW ok \in BOOLEAN, Record(d, ok), Open(d), Locked
  PROVE /\ \A b \in Deliveries : b # d => delivery'[b] = delivery[b]
        /\ delivery'[d].attempts = delivery[d].attempts + 1
        /\ delivery'[d].recoveries = delivery[d].recoveries
        /\ delivery'[d].status = StatusAfter(d, ok)
        /\ StatusAfter(d, ok) \in {"delivered", "failed", "dead_letter"}
        /\ StatusAfter(d, ok) = "failed" => delivery'[d].attempts # Allowed(d)
        /\ StatusAfter(d, ok) = "dead_letter" => delivery'[d].attempts = Allowed(d)
        /\ delivery'[d].attempts <= Allowed(d)
        /\ delivery' \in [Deliveries -> DeliveryRows]
        /\ \A b \in Deliveries : Allowed(b)' = Allowed(b)
        /\ connection' \in Connections
        /\ connection.status # "disconnected" /\ connection'.status \notin {"paused", "disconnected"}
        /\ VerifiedSecret' /\ signed' \in Nat /\ accepted' \in Nat
<1>. USE DEF IInv, Record
<1>1. /\ delivery[d].attempts \in Nat /\ Allowed(d) \in Nat
      /\ delivery[d].attempts < Allowed(d)
  BY Quotas, Spare DEF TypeOK, DeliveryRows, Allowed
<1>2. /\ \A b \in Deliveries : b # d => delivery'[b] = delivery[b]
      /\ delivery'[d].attempts = delivery[d].attempts + 1
      /\ delivery'[d].recoveries = delivery[d].recoveries
      /\ delivery'[d].status = StatusAfter(d, ok)
  BY DEF TypeOK, DeliveryRows
<1>3. /\ StatusAfter(d, ok) \in {"delivered", "failed", "dead_letter"}
      /\ StatusAfter(d, ok) = "failed" => delivery'[d].attempts # Allowed(d)
      /\ StatusAfter(d, ok) = "dead_letter" => delivery'[d].attempts = Allowed(d)
      /\ delivery'[d].attempts <= Allowed(d)
  BY <1>1, <1>2 DEF StatusAfter
<1>4. delivery' \in [Deliveries -> DeliveryRows]
  BY <1>3, RowsRecorded DEF TypeOK
<1>5. \A b \in Deliveries : Allowed(b)' = Allowed(b)
  BY <1>2 DEF Allowed
<1>6. /\ connection' \in Connections
      /\ connection.status # "disconnected" /\ connection'.status \notin {"paused", "disconnected"}
      /\ VerifiedSecret' /\ signed' \in Nat /\ accepted' \in Nat
  BY DEF TypeOK, Fenced, VerifiedSecret, Connections
<1>. QED  BY <1>2, <1>3, <1>4, <1>5, <1>6

LEMMA OneDelivery ==
  ASSUME IInv, NEW d \in Deliveries, \A b \in Deliveries : b # d => delivery'[b] = delivery[b],
         \A j \in JobKeys : j[1] # d => job'[j] = job[j],
         FutureOf(d)', PairedOf(d)', CountedOf(d)'
  PROVE  \A b \in Deliveries : Book(b)'
<1>1. ASSUME NEW b \in Deliveries, b # d PROVE Book(b)'
  <2>1. \A r \in 0 .. MaxRecoveries : job'[<<b, r>>] = job[<<b, r>>]
    BY <1>1, Keys
  <2>. QED  BY <1>1, <2>1, Others
<1>2. Book(d)'
  BY DEF Book
<1>. QED  BY <1>1, <1>2

LEMMA Initially == Init => IInv
BY DeliveryAssumption, Keys, Quotas
DEF Init, IInv, TypeOK, Fenced, Alone, VerifiedSecret, Upstream, Book, FutureOf, PairedOf, CountedOf,
    Locked, Sending, Open, Allowed, Row, DeliveryRows, JobRows, Connections, Deliveries, LastJob,
    Missing, Served, Failures

LEMMA EmitKeeps == ASSUME IInv, NEW e \in Events, Emit(e) PROVE IInv'
<1>. USE DeliveryAssumption, Keys, Quotas DEF IInv, Emit, secrets, bounds
<1>1. TypeOK'
  BY DEF TypeOK, Allowed, Row, DeliveryRows, JobRows, Connections, Open, Fenced, Sending
<1>2. Fenced'
  BY DEF Fenced, TypeOK, Alone, Locked, Sending, Open, Upstream, Row, Connections
<1>3. Alone'
  BY DEF Alone, TypeOK, Fenced, Locked, Sending, Open, Upstream, Row
<1>4. VerifiedSecret'
  BY DEF VerifiedSecret, TypeOK, Fenced, Locked, Connections
<1>5. Upstream'
  BY DEF Upstream, TypeOK, Fenced, Open, Row, Sending
<1>6. ASSUME NEW d \in Deliveries PROVE Book(d)'
  BY DEF TypeOK, Book, FutureOf, PairedOf, CountedOf, Served, LastJob, Failures, Missing,
         Allowed, Open, Row, Sending, DeliveryRows, JobRows, Connections,
         Fenced, Locked, Upstream
<1>. QED  BY <1>1, <1>2, <1>3, <1>4, <1>5, <1>6

LEMMA DrainKeeps == ASSUME IInv, NEW e \in Events, Drain(e) PROVE IInv'
<1>. USE DeliveryAssumption, Keys, Quotas DEF IInv, Drain, secrets, bounds
<1>1. TypeOK'
  BY DEF TypeOK, Allowed, Row, DeliveryRows, JobRows, Connections, Open, Fenced, Sending
<1>2. Fenced'
  BY DEF Fenced, TypeOK, Alone, Locked, Sending, Open, Upstream, Row, Connections
<1>3. Alone'
  BY DEF Alone, TypeOK, Fenced, Locked, Sending, Open, Upstream, Row
<1>4. VerifiedSecret'
  BY DEF VerifiedSecret, TypeOK, Fenced, Locked, Connections
<1>5. Upstream'
  BY DEF Upstream, TypeOK, Fenced, Open, Row, Sending
<1>6. ASSUME NEW d \in Deliveries PROVE Book(d)'
  BY DEF TypeOK, Book, FutureOf, PairedOf, CountedOf, Served, LastJob, Failures, Missing,
         Allowed, Open, Row, Sending, DeliveryRows, JobRows, Connections,
         Fenced, Locked, Upstream
<1>. QED  BY <1>1, <1>2, <1>3, <1>4, <1>5, <1>6

LEMMA MatchKeeps == ASSUME IInv, NEW e \in Events, Match(e) PROVE IInv'
<1>. USE DeliveryAssumption, Keys, Quotas DEF IInv, Match, secrets, bounds
<1>1. TypeOK'
  BY DEF TypeOK, Allowed, Row, DeliveryRows, JobRows, Connections, Open, Fenced, Sending
<1>2. Fenced'
  BY DEF Fenced, TypeOK, Alone, Locked, Sending, Open, Upstream, Row, Connections
<1>3. Alone'
  BY DEF Alone, TypeOK, Fenced, Locked, Sending, Open, Upstream, Row
<1>4. VerifiedSecret'
  BY DEF VerifiedSecret, TypeOK, Fenced, Locked, Connections
<1>5. Upstream'
  BY DEF Upstream, TypeOK, Fenced, Open, Row, Sending
<1>6. ASSUME NEW d \in Deliveries PROVE Book(d)'
  BY DEF TypeOK, Book, FutureOf, PairedOf, CountedOf, Served, LastJob, Failures, Missing,
         Allowed, Open, Row, Sending, DeliveryRows, JobRows, Connections,
         Fenced, Locked, Upstream
<1>. QED  BY <1>1, <1>2, <1>3, <1>4, <1>5, <1>6

LEMMA FanOutKeeps == ASSUME IInv, NEW e \in Events, FanOut(e) PROVE IInv'
<1> DEFINE k == <<e, 0>>
<1>1. /\ e \in Deliveries /\ k \in JobKeys /\ fanout[e] \in {"matched", "unmatched"}
      /\ fanout' = [fanout EXCEPT ![e] = "done"]
      /\ UNCHANGED <<outbox, refusals, connection, request, signed, accepted, changes, faults>>
  BY Keys, DeliveryAssumption DEF FanOut, Deliveries, secrets, bounds
<1>2. /\ delivery[e].status = "absent" /\ outbox[e] \notin {"absent", "pending"}
      /\ delivery[e].attempts = 0 /\ delivery[e].recoveries = 0
      /\ \A q \in 0 .. MaxRecoveries : Missing(<<e, q>>)
  BY <1>1 DEF IInv, Upstream, Book, FutureOf
<1>3. ~Sending(k) /\ \A j \in JobKeys : j[1] # e => j # k
  BY <1>2, DeliveryAssumption DEF Sending, Missing
<1>. HIDE DEF k
<1>. USE <1>1, <1>2, <1>3 DEF IInv
<1>4. CASE UNCHANGED <<delivery, job>>
  <2>. USE <1>4
  <2>1. TypeOK'
    BY DEF TypeOK, Open, Allowed
  <2>2. Fenced' /\ Alone' /\ VerifiedSecret'
    BY DEF Fenced, Alone, VerifiedSecret, Locked, Sending, Open
  <2>3. Upstream'
    BY DEF Upstream, TypeOK
  <2>4. ASSUME NEW b \in Deliveries PROVE Book(b)'
    BY Others
  <2>. QED  BY <2>1, <2>2, <2>3, <2>4
<1>5. ASSUME delivery' = [delivery EXCEPT ![e] = Row("pending")],
             job' = [job EXCEPT ![k].phase = "waiting"]
      PROVE  IInv'
  <2>1. /\ \A j \in JobKeys : j # k => job'[j] = job[j]
        /\ job'[k].phase = "waiting" /\ job'[k].failures = 0 /\ job'[k].errors = 0
        /\ job' \in [JobKeys -> JobRows]
    BY <1>5, Moved, Keys, DeliveryAssumption DEF k, Missing
  <2>2. /\ \A b \in Deliveries : b # e => delivery'[b] = delivery[b]
        /\ delivery'[e].status = "pending" /\ delivery'[e].attempts = 0 /\ delivery'[e].recoveries = 0
        /\ delivery' \in [Deliveries -> DeliveryRows]
    BY <1>5, DeliveryAssumption DEF TypeOK, Row, DeliveryRows
  <2>3. Allowed(e)' = MaxAttempts /\ \A b \in Deliveries : b # e => Allowed(b)' = Allowed(b)
    BY <2>2, Quotas, DeliveryAssumption DEF Allowed
  <2>4. LastJob(e)' = job'[k]
    BY <2>2 DEF LastJob, k
  <2>5. \A q \in 0 .. MaxRecoveries : q > 0 => job'[<<e, q>>] = job[<<e, q>>]
    BY <2>1, Keys DEF k
  <2>. USE <2>1, <2>2, <2>3
  <2>6. TypeOK'
    BY Quotas DEF TypeOK, Open
  <2>7. Fenced' /\ Alone' /\ VerifiedSecret'
    <3>1. \A j \in JobKeys : Sending(j)' <=> Sending(j)
      BY DEF Sending
    <3>2. \A b \in Deliveries : Open(b) => Open(b)'
      BY DEF Open
    <3>. QED  BY <3>1, <3>2, Keys DEF Fenced, Alone, VerifiedSecret, Locked, TypeOK
  <2>8. Upstream'
    BY DEF Upstream, TypeOK, Deliveries
  <2>9. FutureOf(e)'
    BY <2>5 DEF FutureOf, Missing
  <2>10. PairedOf(e)' /\ CountedOf(e)'
    BY <2>4, Quotas, DeliveryAssumption DEF PairedOf, CountedOf, Failures, Open
  <2>11. \A b \in Deliveries : Book(b)'
    BY <2>9, <2>10, OneDelivery
  <2>. QED  BY <2>6, <2>7, <2>8, <2>11
<1>. QED  BY <1>4, <1>5 DEF FanOut, k

LEMMA FanOutRaisesKeeps == ASSUME IInv, NEW e \in Events, FanOutRaises(e) PROVE IInv'
<1>. USE DeliveryAssumption, Keys, Quotas DEF IInv, FanOutRaises, secrets, bounds
<1>1. TypeOK'
  BY DEF TypeOK, Allowed, Row, DeliveryRows, JobRows, Connections, Open, Fenced, Sending
<1>2. Fenced'
  BY DEF Fenced, TypeOK, Alone, Locked, Sending, Open, Upstream, Row, Connections
<1>3. Alone'
  BY DEF Alone, TypeOK, Fenced, Locked, Sending, Open, Upstream, Row
<1>4. VerifiedSecret'
  BY DEF VerifiedSecret, TypeOK, Fenced, Locked, Connections
<1>5. Upstream'
  BY DEF Upstream, TypeOK, Fenced, Open, Row, Sending
<1>6. ASSUME NEW d \in Deliveries PROVE Book(d)'
  BY DEF TypeOK, Book, FutureOf, PairedOf, CountedOf, Served, LastJob, Failures, Missing,
         Allowed, Open, Row, Sending, DeliveryRows, JobRows, Connections,
         Fenced, Locked, Upstream
<1>. QED  BY <1>1, <1>2, <1>3, <1>4, <1>5, <1>6

LEMMA KillFanOutKeeps == ASSUME IInv, NEW e \in Events, KillFanOut(e) PROVE IInv'
<1>. USE DeliveryAssumption, Keys, Quotas DEF IInv, KillFanOut, secrets
<1>1. TypeOK'
  BY DEF TypeOK, Allowed, Row, DeliveryRows, JobRows, Connections, Open, Fenced, Sending
<1>2. Fenced'
  BY DEF Fenced, TypeOK, Alone, Locked, Sending, Open, Upstream, Row, Connections
<1>3. Alone'
  BY DEF Alone, TypeOK, Fenced, Locked, Sending, Open, Upstream, Row
<1>4. VerifiedSecret'
  BY DEF VerifiedSecret, TypeOK, Fenced, Locked, Connections
<1>5. Upstream'
  BY DEF Upstream, TypeOK, Fenced, Open, Row, Sending
<1>6. ASSUME NEW d \in Deliveries PROVE Book(d)'
  BY DEF TypeOK, Book, FutureOf, PairedOf, CountedOf, Served, LastJob, Failures, Missing,
         Allowed, Open, Row, Sending, DeliveryRows, JobRows, Connections,
         Fenced, Locked, Upstream
<1>. QED  BY <1>1, <1>2, <1>3, <1>4, <1>5, <1>6

LEMMA TakeKeeps == ASSUME IInv, NEW k \in JobKeys, Take(k) PROVE IInv'
<1>1. /\ \A j \in JobKeys : j # k => job'[j] = job[j]
      /\ job[k].phase = "waiting" /\ job'[k].phase = "working"
      /\ job'[k].failures = job[k].failures /\ job'[k].errors = job[k].errors
      /\ job' \in [JobKeys -> JobRows]
      /\ UNCHANGED <<outbox, fanout, refusals, delivery, connection, request, signed, accepted, changes, faults>>
  BY Moved DEF IInv, Take, source, secrets, bounds
<1>2. TypeOK'
  BY <1>1 DEF IInv, TypeOK, Open, Allowed
<1>3. Fenced' /\ Alone' /\ VerifiedSecret' /\ Upstream'
  BY <1>1 DEF IInv, Fenced, Alone, VerifiedSecret, Upstream, Locked, Sending, Open
<1>4. Failures(job'[k]) + job[k].errors <= Failures(job[k]) + job'[k].errors
  BY <1>1 DEF Failures, IInv, TypeOK, JobRows
<1>5. ASSUME NEW b \in Deliveries PROVE Book(b)'
  BY <1>1, <1>4, JobOnly
<1>. QED  BY <1>2, <1>3, <1>5 DEF IInv

LEMMA StartKeeps == ASSUME IInv, NEW k \in JobKeys, Start(k) PROVE IInv'
<1> DEFINE d == k[1]
<1>a. /\ d \in Deliveries /\ job[k].phase = "working" /\ ~Locked
      /\ \A b \in Deliveries : \A r \in 0 .. MaxRecoveries : <<b, r>> = k => b = d
      /\ UNCHANGED <<outbox, fanout, refusals, connection, request, accepted, changes, faults>>
  BY Keys DEF Start, source, bounds
<1>b. \A b \in Deliveries : b # d => \A r \in 0 .. MaxRecoveries : <<b, r>> # k
  BY <1>a
<1>. HIDE DEF d
<1>. USE DeliveryAssumption, Keys, Quotas, <1>a, <1>b DEF IInv
<1>1. ASSUME NEW p \in {"returned", "broken"}, job' = [job EXCEPT ![k].phase = p],
             p = "returned" => ~Open(d), UNCHANGED <<delivery, signed>>
      PROVE  IInv'
  <2>m. /\ \A j \in JobKeys : j # k => job'[j] = job[j]
        /\ job'[k].phase = p /\ job'[k].failures = job[k].failures
        /\ job'[k].errors = job[k].errors /\ job' \in [JobKeys -> JobRows]
    BY <1>1, Moved
  <2>. USE <1>1, <2>m
  <2>1. TypeOK'
    BY DEF TypeOK, Fenced, Open, Sending, Connections, Allowed
  <2>2. Fenced'
    BY DEF Fenced, TypeOK, Alone, Locked, Sending, Open, Allowed
  <2>3. Alone'
    BY DEF Alone, Fenced, Locked, Sending, Allowed
  <2>4. VerifiedSecret'
    BY DEF VerifiedSecret, TypeOK, Allowed
  <2>5. Upstream'
    BY DEF Upstream, TypeOK, Open, Fenced, Sending, Allowed
  <2>6. ASSUME NEW b \in Deliveries PROVE Book(b)'
    <3>1. CASE b # d
      BY <3>1, Others
    <3>2. delivery[d].recoveries \in 0 .. MaxRecoveries /\ delivery'[d].recoveries = delivery[d].recoveries
      BY DEF TypeOK, DeliveryRows
    <3>3. IF k = <<d, delivery[d].recoveries>> THEN LastJob(d) = job[k] /\ LastJob(d)' = job'[k]
                                              ELSE LastJob(d)' = LastJob(d)
      BY <3>2 DEF LastJob
    <3>4. FutureOf(d)'
      BY <3>2 DEF Book, FutureOf, Missing, Open
    <3>5. PairedOf(d)'
      BY <3>2, <3>3 DEF Book, PairedOf, Served, Open
    <3>6. CountedOf(d)'
      <4>1. /\ Failures(LastJob(d)') = Failures(LastJob(d)) /\ LastJob(d)'.errors = LastJob(d).errors
            /\ LastJob(d)'.phase = "dead_letter" => LastJob(d).phase = "dead_letter"
        BY <3>3 DEF Failures
      <4>. QED  BY <3>2, <4>1 DEF Book, CountedOf, Open, Allowed
    <3>. QED  BY <3>1, <3>4, <3>5, <3>6 DEF Book
  <2>. QED  BY <2>1, <2>2, <2>3, <2>4, <2>5, <2>6 DEF IInv
<1>2. ASSUME delivery' = [delivery EXCEPT ![d].status = "cancelled"],
             job' = [job EXCEPT ![k].phase = "returned"], Open(d), UNCHANGED signed
      PROVE  IInv'
  <2>m. /\ \A j \in JobKeys : j # k => job'[j] = job[j]
        /\ job'[k].phase = "returned" /\ job'[k].failures = job[k].failures
        /\ job'[k].errors = job[k].errors /\ job' \in [JobKeys -> JobRows]
    BY <1>2, Moved
  <2>t. /\ \A b \in Deliveries : b # d => delivery'[b] = delivery[b]
        /\ delivery'[d].status = "cancelled" /\ delivery'[d].attempts = delivery[d].attempts
        /\ delivery'[d].recoveries = delivery[d].recoveries
        /\ \A b \in Deliveries : Allowed(b)' = Allowed(b)
        /\ delivery' \in [Deliveries -> DeliveryRows]
    BY <1>2, Turned
  <2>0. \A b \in Deliveries : /\ delivery'[b].attempts = delivery[b].attempts
                                /\ Open(b)' => Open(b)
    BY <1>2, <2>t DEF Open
  <2>. USE <1>2, <2>0, <2>m, <2>t
  <2>1. TypeOK'
    BY DEF TypeOK, Fenced, Open, Sending, Connections
  <2>2. Fenced'
    BY DEF Fenced, TypeOK, Alone, Locked, Sending, Open
  <2>3. Alone'
    BY DEF Alone, Fenced, Locked, Sending
  <2>4. VerifiedSecret'
    BY DEF VerifiedSecret, TypeOK
  <2>5. Upstream'
    BY DEF Upstream, TypeOK, Open, Fenced, Sending
  <2>6. ASSUME NEW b \in Deliveries PROVE Book(b)'
    <3>1. CASE b # d
      BY <3>1, Others
    <3>2. delivery[d].recoveries \in 0 .. MaxRecoveries /\ delivery'[d].recoveries = delivery[d].recoveries
      BY DEF TypeOK, DeliveryRows
    <3>3. IF k = <<d, delivery[d].recoveries>> THEN LastJob(d) = job[k] /\ LastJob(d)' = job'[k]
                                              ELSE LastJob(d)' = LastJob(d)
      BY <3>2 DEF LastJob
    <3>4. FutureOf(d)'
      BY <3>2 DEF Book, FutureOf, Missing, Open
    <3>5. PairedOf(d)'
      BY <3>2, <3>3 DEF Book, PairedOf, Served, Open
    <3>6. CountedOf(d)'
      BY <3>2, <3>3 DEF Book, CountedOf, Served, Open, Failures, TypeOK, DeliveryRows, JobRows
    <3>. QED  BY <3>1, <3>4, <3>5, <3>6 DEF Book
  <2>. QED  BY <2>1, <2>2, <2>3, <2>4, <2>5, <2>6 DEF IInv
<1>3. ASSUME Open(d), connection.status \notin {"paused", "disconnected"},
             job' = [job EXCEPT ![k].phase = "sending"], signed' = connection.secret,
             UNCHANGED delivery
      PROVE  IInv'
  <2>m. /\ \A j \in JobKeys : j # k => job'[j] = job[j]
        /\ job'[k].phase = "sending" /\ job'[k].failures = job[k].failures
        /\ job'[k].errors = job[k].errors /\ job' \in [JobKeys -> JobRows]
    BY <1>3, Moved
  <2>. USE <1>3, <2>m
  <2>1. TypeOK'
    BY DEF TypeOK, Fenced, Open, Sending, Connections, Allowed
  <2>2. Fenced'
    BY DEF Fenced, TypeOK, Alone, Locked, Sending, Open, Allowed
  <2>3. Alone'
    BY DEF Alone, Fenced, Locked, Sending, Allowed
  <2>4. VerifiedSecret'
    BY DEF VerifiedSecret, TypeOK, Allowed
  <2>5. Upstream'
    BY DEF Upstream, TypeOK, Open, Fenced, Sending, Allowed
  <2>6. ASSUME NEW b \in Deliveries PROVE Book(b)'
    <3>1. CASE b # d
      BY <3>1, Others
    <3>2. delivery[d].recoveries \in 0 .. MaxRecoveries /\ delivery'[d].recoveries = delivery[d].recoveries
      BY DEF TypeOK, DeliveryRows
    <3>3. IF k = <<d, delivery[d].recoveries>> THEN LastJob(d) = job[k] /\ LastJob(d)' = job'[k]
                                              ELSE LastJob(d)' = LastJob(d)
      BY <3>2 DEF LastJob
    <3>4. FutureOf(d)'
      BY <3>2 DEF Book, FutureOf, Missing, Open
    <3>5. PairedOf(d)'
      BY <3>2, <3>3 DEF Book, PairedOf, Served, Open
    <3>6. CountedOf(d)'
      <4>1. /\ Failures(LastJob(d)') = Failures(LastJob(d)) /\ LastJob(d)'.errors = LastJob(d).errors
            /\ LastJob(d)'.phase = "dead_letter" => LastJob(d).phase = "dead_letter"
        BY <3>3 DEF Failures
      <4>. QED  BY <3>2, <4>1 DEF Book, CountedOf, Open, Allowed
    <3>. QED  BY <3>1, <3>4, <3>5, <3>6 DEF Book
  <2>. QED  BY <2>1, <2>2, <2>3, <2>4, <2>5, <2>6 DEF IInv
<1>. QED  BY <1>1, <1>2, <1>3 DEF Start, d

LEMMA FinishKeeps ==
  ASSUME IInv, NEW k \in JobKeys, NEW ok \in BOOLEAN, Finish(k, ok) PROVE IInv'
<1> DEFINE d == k[1]
<1>1. d \in Deliveries /\ Open(d) /\ Locked /\ Record(d, ok) /\ request = NoDelivery
  BY Keys DEF IInv, Finish, Fenced, Alone, Locked
<1>2. /\ \A j \in JobKeys : j # k => job'[j] = job[j] /\ ~Sending(j)
      /\ job[k].phase = "sending" /\ job' \in [JobKeys -> JobRows]
      /\ job'[k].phase = IF StatusAfter(d, ok) = "failed" THEN "raised" ELSE "returned"
      /\ job'[k].failures = job[k].failures /\ job[k].failures \in Nat
      /\ job'[k].errors = job[k].errors /\ job[k].errors \in Nat
      /\ \A j \in JobKeys : j[1] # d => job'[j] = job[j]
  BY DEF IInv, Finish, TypeOK, JobRows, Alone, Sending
<1>3. UNCHANGED <<outbox, fanout, refusals, request, changes, faults>>
  BY DEF Finish, source, bounds
<1>4. /\ \A r \in 0 .. MaxRecoveries : <<d, r>> \in JobKeys
      /\ k = <<d, k[2]>> /\ k[2] \in 0 .. MaxRecoveries
      /\ delivery[d].recoveries \in 0 .. MaxRecoveries /\ delivery[d].attempts \in Nat
      /\ delivery[d].status \in {"pending", "failed"}
  BY <1>1, Keys DEF IInv, TypeOK, DeliveryRows, Open
<1>. HIDE DEF d
<1>. USE <1>1, <1>2, <1>3, <1>4 DEF IInv
<1>5. TypeOK'
  BY Recorded DEF TypeOK, Open
<1>6. Fenced' /\ Alone' /\ VerifiedSecret'
  BY Recorded DEF Fenced, Alone, Locked, Sending
<1>7. Upstream'
  BY Recorded DEF Upstream, Deliveries
<1>8. \/ k = <<d, delivery[d].recoveries>> /\ LastJob(d) = job[k] /\ LastJob(d)' = job'[k]
      \/ LastJob(d)' = LastJob(d) /\ k # <<d, delivery[d].recoveries>>
  BY Recorded DEF LastJob
<1>9. FutureOf(d)'
  BY Recorded DEF Book, FutureOf, Missing
<1>10. PairedOf(d)'
  BY <1>8, Recorded DEF Book, PairedOf, Served, Open
<1>11. CountedOf(d)'
  <2>1. /\ LastJob(d).failures \in Nat /\ LastJob(d).errors \in Nat
        /\ MaxAttempts * delivery[d].recoveries \in Nat
    BY Quotas DEF LastJob, TypeOK, JobRows
  <2>2. Failures(LastJob(d)') \in Nat /\ Failures(LastJob(d)') <= Failures(LastJob(d)) + 1
        /\ Failures(LastJob(d)) \in Nat /\ LastJob(d)'.errors = LastJob(d).errors
    BY <1>8, <2>1 DEF Failures
  <2>4. /\ Failures(LastJob(d)) + MaxAttempts * delivery[d].recoveries
             <= delivery[d].attempts + LastJob(d).errors
        /\ LastJob(d).phase = "dead_letter" => LastJob(d).errors > 0
    BY DEF Book, CountedOf
  <2>5. LastJob(d)'.phase = "dead_letter" => LastJob(d)'.errors > 0
    BY <1>8, <2>2, <2>4
  <2>6. Failures(LastJob(d)') + MaxAttempts * delivery'[d].recoveries
          <= delivery'[d].attempts + LastJob(d)'.errors
    BY <2>1, <2>2, <2>4, Recorded
  <2>. QED  BY <2>5, <2>6, Recorded DEF CountedOf
<1>12. \A b \in Deliveries : Book(b)'
  BY <1>9, <1>10, <1>11, OneDelivery, Recorded
<1>. QED  BY <1>5, <1>6, <1>7, <1>12

LEMMA ConcludeKeeps == ASSUME IInv, NEW k \in JobKeys, Conclude(k) PROVE IInv'
<1>1. /\ \A j \in JobKeys : j # k => job'[j] = job[j]
      /\ job[k].phase \in {"returned", "raised", "broken"} /\ job' \in [JobKeys -> JobRows]
      /\ job'[k].phase \in {"completed", "waiting", "dead_letter"}
      /\ job'[k].phase = "completed" => job[k].phase = "returned"
      /\ job'[k].phase = "dead_letter" =>
           /\ job[k].phase \in {"raised", "broken"} /\ job[k].failures >= MaxRetries
           /\ job[k].phase = "broken" => job'[k].errors > 0
           /\ job[k].phase = "raised" => job'[k].errors = job[k].errors
      /\ Failures(job'[k]) + job[k].errors = Failures(job[k]) + job'[k].errors
      /\ job[k].failures \in Nat /\ job[k].errors \in Nat /\ job'[k].errors \in Nat
      /\ Failures(job[k]) \in Nat /\ Failures(job'[k]) \in Nat
  BY DEF IInv, Conclude, TypeOK, JobRows, Failures
<1>2. UNCHANGED <<outbox, fanout, refusals, delivery, connection, request, signed, accepted, changes, faults>>
  BY DEF Conclude, source, secrets, bounds
<1>3. TypeOK'
  BY <1>1, <1>2 DEF IInv, TypeOK, Open, Allowed
<1>4. Fenced' /\ Alone' /\ VerifiedSecret' /\ Upstream'
  BY <1>1, <1>2 DEF IInv, Fenced, Alone, VerifiedSecret, Upstream, Locked, Sending, Open
<1>5. ASSUME k = <<k[1], delivery[k[1]].recoveries>>, Open(k[1]), job'[k].phase = "dead_letter"
      PROVE  job'[k].errors > 0
  <2> DEFINE d == k[1]
  <2>0. d \in Deliveries /\ LastJob(d) = job[k] /\ delivery[d].recoveries \in Nat
        /\ delivery[d].attempts \in Nat /\ Open(d)
    BY <1>5, Keys DEF LastJob, IInv, TypeOK, DeliveryRows
  <2>. HIDE DEF d
  <2>1. Failures(job[k]) + MaxAttempts * delivery[d].recoveries <= delivery[d].attempts + job[k].errors
    BY <2>0 DEF IInv, Book, CountedOf
  <2>2. delivery[d].attempts < MaxAttempts + MaxAttempts * delivery[d].recoveries
    BY <2>0, Spare, Quotas DEF IInv, Allowed
  <2>3. Failures(job[k]) < MaxAttempts + job[k].errors
    BY <1>1, <2>0, <2>1, <2>2, Quotas DEF Failures
  <2>. QED  BY <1>1, <1>5, <2>3, DeliveryAssumption DEF Failures
<1>6. k = <<k[1], delivery[k[1]].recoveries>> /\ job[k].phase = "returned" => ~Open(k[1])
  BY Keys DEF IInv, Book, PairedOf, LastJob
<1>7. ASSUME NEW b \in Deliveries PROVE Book(b)'
  <2>1. /\ Failures(job'[k]) + job[k].errors <= Failures(job[k]) + job'[k].errors
        /\ job[k].phase # "absent" /\ job'[k].phase # "absent"
    BY <1>1
  <2>2. k = <<k[1], delivery[k[1]].recoveries>> =>
           /\ job'[k].phase \in {"returned", "completed"} => ~Open(k[1])
           /\ job'[k].phase = "dead_letter" => ~Open(k[1]) \/ job'[k].errors > 0
    BY <1>1, <1>5, <1>6
  <2>. QED  BY <1>1, <1>2, <2>1, <2>2, JobOnly
<1>. QED  BY <1>3, <1>4, <1>7 DEF IInv

LEMMA BreakKeeps == ASSUME IInv, NEW k \in JobKeys, Break(k) PROVE IInv'
<1>1. /\ \A j \in JobKeys : j # k => job'[j] = job[j]
      /\ job[k].phase \in {"working", "sending", "returned"}
      /\ job'[k].phase = "broken" /\ job'[k].failures = job[k].failures
      /\ job'[k].errors = job[k].errors /\ job' \in [JobKeys -> JobRows]
      /\ signed' = IF Sending(k) THEN 0 ELSE signed
      /\ UNCHANGED <<outbox, fanout, refusals, delivery, connection, request, accepted, changes>>
  BY Moved DEF IInv, Break, source
<1>2. TypeOK'
  BY <1>1 DEF IInv, TypeOK, Open, Allowed
<1>3. Fenced' /\ Alone' /\ VerifiedSecret' /\ Upstream'
  BY <1>1 DEF IInv, Fenced, Alone, VerifiedSecret, Upstream, Locked, Sending, Open
<1>4. Failures(job'[k]) + job[k].errors <= Failures(job[k]) + job'[k].errors
  BY <1>1 DEF Failures, IInv, TypeOK, JobRows
<1>5. ASSUME NEW b \in Deliveries PROVE Book(b)'
  BY <1>1, <1>4, JobOnly
<1>. QED  BY <1>2, <1>3, <1>5 DEF IInv

LEMMA KillKeeps == ASSUME IInv, NEW k \in JobKeys, Kill(k) PROVE IInv'
<1>1. /\ \A j \in JobKeys : j # k => job'[j] = job[j]
      /\ job[k].phase \in {"working", "sending", "returned", "raised", "broken"}
      /\ job'[k].phase = "waiting" /\ job'[k].failures = job[k].failures
      /\ job'[k].errors = job[k].errors /\ job' \in [JobKeys -> JobRows]
      /\ signed' = IF Sending(k) THEN 0 ELSE signed
      /\ UNCHANGED <<outbox, fanout, refusals, delivery, connection, request, accepted, changes>>
  BY Moved DEF IInv, Kill, source
<1>2. TypeOK'
  BY <1>1 DEF IInv, TypeOK, Open, Allowed
<1>3. Fenced' /\ Alone' /\ VerifiedSecret' /\ Upstream'
  BY <1>1 DEF IInv, Fenced, Alone, VerifiedSecret, Upstream, Locked, Sending, Open
<1>4. Failures(job'[k]) + job[k].errors <= Failures(job[k]) + job'[k].errors
  BY <1>1 DEF Failures, IInv, TypeOK, JobRows
<1>5. ASSUME NEW b \in Deliveries PROVE Book(b)'
  BY <1>1, <1>4, JobOnly
<1>. QED  BY <1>2, <1>3, <1>5 DEF IInv

LEMMA SendTestKeeps == ASSUME IInv, NEW d \in Deliveries, SendTest(d) PROVE IInv'
<1>1. /\ d \in Tests /\ d \notin Events /\ delivery[d].status = "absent" /\ ~Locked
      /\ \A b \in Deliveries : b # d => delivery'[b] = delivery[b]
      /\ delivery'[d] = Row("pending") /\ delivery' \in [Deliveries -> DeliveryRows]
      /\ UNCHANGED <<outbox, fanout, refusals, job, connection, request, signed, accepted, changes, faults>>
  BY DeliveryAssumption DEF SendTest, IInv, TypeOK, DeliveryRows, Row, source, secrets, bounds
<1>. USE <1>1, Keys, Quotas, DeliveryAssumption DEF IInv
<1>2. /\ delivery'[d].attempts = 0 /\ delivery'[d].recoveries = 0 /\ delivery'[d].status = "pending"
      /\ delivery[d].recoveries = 0
  BY DEF Row, Upstream
<1>3. Allowed(d)' = MaxAttempts /\ \A b \in Deliveries : b # d => Allowed(b)' = Allowed(b)
  BY <1>2 DEF Allowed
<1>4. TypeOK'
  BY <1>2, <1>3 DEF TypeOK, Open
<1>5. Fenced' /\ Alone' /\ VerifiedSecret'
  BY DEF Fenced, Alone, VerifiedSecret, Locked, Sending, Open
<1>6. Upstream'
  BY <1>2 DEF Upstream, Deliveries
<1>7. Missing(<<d, 0>>) /\ LastJob(d)' = job[<<d, 0>>]
  BY <1>2 DEF Book, FutureOf, LastJob
<1>8. FutureOf(d)'
  BY <1>2 DEF Book, FutureOf, Missing
<1>9. PairedOf(d)' /\ CountedOf(d)'
  BY <1>2, <1>7 DEF PairedOf, CountedOf, Served, Open, Missing, Failures
<1>10. \A b \in Deliveries : Book(b)'
  BY <1>8, <1>9, OneDelivery
<1>. QED  BY <1>4, <1>5, <1>6, <1>10

LEMMA RetryDeliveryKeeps == ASSUME IInv, NEW d \in Deliveries, RetryDelivery(d) PROVE IInv'
<1>1. /\ Open(d) /\ ~Locked /\ delivery[d].status \in {"pending", "failed"}
      /\ UNCHANGED <<outbox, fanout, refusals, job, connection, accepted, changes, faults>>
  BY DEF RetryDelivery, Retryable, Open, source, bounds
<1>. USE <1>1, Keys, Quotas, DeliveryAssumption DEF IInv
<1>2. ASSUME delivery' = [delivery EXCEPT ![d].status = "cancelled"], UNCHANGED <<request, signed>>
      PROVE  IInv'
  <2>1. /\ \A b \in Deliveries : b # d => delivery'[b] = delivery[b]
        /\ delivery'[d].status = "cancelled" /\ delivery'[d].attempts = delivery[d].attempts
        /\ delivery'[d].recoveries = delivery[d].recoveries
        /\ \A b \in Deliveries : Allowed(b)' = Allowed(b)
        /\ delivery' \in [Deliveries -> DeliveryRows]
    BY <1>2, Turned
  <2>. USE <1>2, <2>1
  <2>2. TypeOK'
    BY DEF TypeOK, Open
  <2>3. Fenced' /\ Alone' /\ VerifiedSecret'
    BY DEF Fenced, Alone, VerifiedSecret, Locked, Sending, Open
  <2>4. Upstream'
    BY DEF Upstream
  <2>5. delivery[d].recoveries \in 0 .. MaxRecoveries /\ LastJob(d)' = LastJob(d)
    BY DEF LastJob, TypeOK, DeliveryRows
  <2>6. FutureOf(d)' /\ PairedOf(d)' /\ CountedOf(d)'
    BY <2>5 DEF Book, FutureOf, Missing, PairedOf, CountedOf, Served, Open
  <2>7. \A b \in Deliveries : Book(b)'
    BY <2>6, OneDelivery
  <2>. QED  BY <2>2, <2>3, <2>4, <2>7
<1>3. ASSUME connection.status \notin {"paused", "disconnected"},
             request' = d, signed' = connection.secret, UNCHANGED delivery
      PROVE  IInv'
  <2>. USE <1>3
  <2>1. TypeOK'
    BY DEF TypeOK, Open, Allowed, Connections
  <2>2. Fenced' /\ Alone' /\ VerifiedSecret' /\ Upstream'
    BY DEF Fenced, Alone, VerifiedSecret, Upstream, Locked, Sending, Open
  <2>3. ASSUME NEW b \in Deliveries PROVE Book(b)'
    BY Others
  <2>. QED  BY <2>1, <2>2, <2>3
<1>. QED  BY <1>2, <1>3 DEF RetryDelivery

LEMMA RecoverKeeps == ASSUME IInv, NEW d \in Deliveries, Recover(d) PROVE IInv'
<1> DEFINE r == delivery[d].recoveries
           k == <<d, r + 1>>
<1>1. /\ delivery[d].status = "dead_letter" /\ r \in Nat /\ r < MaxRecoveries /\ ~Locked
      /\ connection.status \notin {"paused", "disconnected"}
      /\ \A b \in Deliveries : b # d => delivery'[b] = delivery[b]
      /\ delivery'[d].status = "pending" /\ delivery'[d].recoveries = r + 1
      /\ delivery'[d].attempts = delivery[d].attempts
      /\ delivery' \in [Deliveries -> DeliveryRows]
      /\ UNCHANGED <<outbox, fanout, refusals, connection, request, signed, accepted, changes, faults>>
  BY DeliveryAssumption DEF Recover, IInv, TypeOK, DeliveryRows, source, secrets, bounds
<1>2. /\ k \in JobKeys /\ \A q \in 0 .. MaxRecoveries : <<d, q>> \in JobKeys
      /\ Missing(k)
  BY <1>1, Keys, DeliveryAssumption DEF IInv, Book, FutureOf
<1>3. /\ \A j \in JobKeys : j # k => job'[j] = job[j]
      /\ job'[k].phase = "waiting" /\ job'[k].failures = 0 /\ job'[k].errors = 0
      /\ job' \in [JobKeys -> JobRows]
  BY <1>2 DEF Recover, Enqueue, JobOf, IInv, TypeOK, JobRows, Missing
<1>4. \A j \in JobKeys : j[1] # d => job'[j] = job[j]
  BY <1>3
<1>5. \A q \in 0 .. MaxRecoveries : q # r + 1 => job'[<<d, q>>] = job[<<d, q>>]
  BY <1>2, <1>3
<1>. HIDE DEF k
<1>6. /\ LastJob(d)' = job'[k]
      /\ delivery[d].attempts = MaxAttempts * (1 + r) /\ delivery[d].attempts \in Nat
      /\ Allowed(d)' = MaxAttempts + delivery[d].attempts
      /\ MaxAttempts * (r + 1) = delivery[d].attempts
      /\ \A b \in Deliveries : b # d => Allowed(b)' = Allowed(b)
  BY <1>1, Quotas DEF k, LastJob, IInv, Book, CountedOf, Allowed, TypeOK, DeliveryRows
<1>. HIDE DEF r
<1>. USE <1>1, <1>2, <1>3, <1>6, DeliveryAssumption, Quotas DEF IInv
<1>7. TypeOK'
  BY DEF TypeOK, Open
<1>8. Fenced' /\ Alone' /\ VerifiedSecret'
  BY DEF Fenced, Alone, VerifiedSecret, Locked, Sending, Open, Missing
<1>9. Upstream'
  BY DEF Upstream, Deliveries
<1>10. FutureOf(d)'
  <2>1. \A q \in 0 .. MaxRecoveries : q > r + 1 => q > r /\ q # r + 1
    BY DEF IInv
  <2>. QED  BY <1>5, <2>1 DEF r, Book, FutureOf, Missing
<1>11. PairedOf(d)'
  BY DEF PairedOf, Open
<1>12. CountedOf(d)'
  <2>1. /\ Failures(LastJob(d)') = 0 /\ LastJob(d)'.errors = 0
        /\ LastJob(d)'.phase = "waiting"
    BY <1>3, <1>6 DEF Failures
  <2>2. Failures(LastJob(d)') + MaxAttempts * delivery'[d].recoveries
          <= delivery'[d].attempts + LastJob(d)'.errors
    BY <2>1
  <2>. QED  BY <2>1, <2>2 DEF CountedOf
<1>13. \A b \in Deliveries : Book(b)'
  BY <1>4, <1>10, <1>11, <1>12, OneDelivery
<1>. QED  BY <1>7, <1>8, <1>9, <1>13

LEMMA FinishRequestKeeps == ASSUME IInv, NEW ok \in BOOLEAN, FinishRequest(ok) PROVE IInv'
<1>0. PICK d \in Deliveries : d = request
  BY DEF IInv, TypeOK, FinishRequest
<1>1. Open(d) /\ Locked /\ Record(d, ok)
  BY <1>0 DEF IInv, FinishRequest, Fenced, Locked
<1>2. \A j \in JobKeys : ~Sending(j)
  BY DEF IInv, FinishRequest, Alone
<1>3. request' = NoDelivery /\ UNCHANGED <<outbox, fanout, refusals, job, changes, faults>>
  BY DEF FinishRequest, source, bounds
<1>4. /\ \A r \in 0 .. MaxRecoveries : <<d, r>> \in JobKeys
      /\ delivery[d].recoveries \in 0 .. MaxRecoveries /\ delivery[d].attempts \in Nat
      /\ delivery[d].status \in {"pending", "failed"}
  BY <1>1, Keys DEF IInv, TypeOK, DeliveryRows, Open
<1>. USE <1>1, <1>2, <1>3, <1>4 DEF IInv
<1>5. TypeOK'
  BY Recorded DEF TypeOK, Open
<1>6. Fenced' /\ Alone' /\ VerifiedSecret'
  BY Recorded DEF Fenced, Alone, Locked, Sending
<1>7. Upstream'
  BY Recorded DEF Upstream, Deliveries
<1>8. LastJob(d)' = LastJob(d)
  BY Recorded DEF LastJob
<1>9. FutureOf(d)'
  BY Recorded DEF Book, FutureOf, Missing
<1>10. PairedOf(d)'
  BY <1>8, Recorded DEF Book, PairedOf, Served, Open
<1>11. CountedOf(d)'
  <2>1. /\ Failures(LastJob(d)) \in Nat /\ LastJob(d).errors \in Nat
        /\ MaxAttempts * delivery[d].recoveries \in Nat
    BY Quotas DEF LastJob, TypeOK, JobRows, Failures
  <2>3. /\ Failures(LastJob(d)) + MaxAttempts * delivery[d].recoveries
             <= delivery[d].attempts + LastJob(d).errors
        /\ LastJob(d).phase = "dead_letter" => LastJob(d).errors > 0
    BY DEF Book, CountedOf
  <2>4. /\ Failures(LastJob(d)') + MaxAttempts * delivery'[d].recoveries
             <= delivery'[d].attempts + LastJob(d)'.errors
        /\ LastJob(d)'.phase = "dead_letter" => LastJob(d)'.errors > 0
    BY <1>8, <2>1, <2>3, Recorded
  <2>. QED  BY <2>4, Recorded DEF CountedOf
<1>12. \A b \in Deliveries : Book(b)'
  BY <1>9, <1>10, <1>11, OneDelivery, Recorded
<1>. QED  BY <1>5, <1>6, <1>7, <1>12

LEMMA KillRequestKeeps == ASSUME IInv, KillRequest PROVE IInv'
<1>. USE DeliveryAssumption, Keys, Quotas DEF IInv, KillRequest, source
<1>1. TypeOK'
  BY DEF TypeOK, Allowed, Row, DeliveryRows, JobRows, Connections, Open, Fenced, Sending
<1>2. Fenced'
  BY DEF Fenced, TypeOK, Alone, Locked, Sending, Open, Upstream, Row, Connections
<1>3. Alone'
  BY DEF Alone, TypeOK, Fenced, Locked, Sending, Open, Upstream, Row
<1>4. VerifiedSecret'
  BY DEF VerifiedSecret, TypeOK, Fenced, Locked, Connections
<1>5. Upstream'
  BY DEF Upstream, TypeOK, Fenced, Open, Row, Sending
<1>6. ASSUME NEW d \in Deliveries PROVE Book(d)'
  BY DEF TypeOK, Book, FutureOf, PairedOf, CountedOf, Served, LastJob, Failures, Missing,
         Allowed, Open, Row, Sending, DeliveryRows, JobRows, Connections,
         Fenced, Locked, Upstream
<1>. QED  BY <1>1, <1>2, <1>3, <1>4, <1>5, <1>6

LEMMA PauseKeeps == ASSUME IInv, Pause PROVE IInv'
<1>. USE DeliveryAssumption, Keys, Quotas DEF IInv, Pause, MayChange, Change, source, secrets
<1>1. TypeOK'
  BY DEF TypeOK, Allowed, Row, DeliveryRows, JobRows, Connections, Open, Fenced, Sending
<1>2. Fenced'
  BY DEF Fenced, TypeOK, Alone, Locked, Sending, Open, Upstream, Row, Connections
<1>3. Alone'
  BY DEF Alone, TypeOK, Fenced, Locked, Sending, Open, Upstream, Row
<1>4. VerifiedSecret'
  BY DEF VerifiedSecret, TypeOK, Fenced, Locked, Connections
<1>5. Upstream'
  BY DEF Upstream, TypeOK, Fenced, Open, Row, Sending
<1>6. ASSUME NEW d \in Deliveries PROVE Book(d)'
  BY DEF TypeOK, Book, FutureOf, PairedOf, CountedOf, Served, LastJob, Failures, Missing,
         Allowed, Open, Row, Sending, DeliveryRows, JobRows, Connections,
         Fenced, Locked, Upstream
<1>. QED  BY <1>1, <1>2, <1>3, <1>4, <1>5, <1>6

LEMMA ResumeKeeps == ASSUME IInv, Resume PROVE IInv'
<1>. USE DeliveryAssumption, Keys, Quotas DEF IInv, Resume, MayChange, Change, source, secrets
<1>1. TypeOK'
  BY DEF TypeOK, Allowed, Row, DeliveryRows, JobRows, Connections, Open, Fenced, Sending
<1>2. Fenced'
  BY DEF Fenced, TypeOK, Alone, Locked, Sending, Open, Upstream, Row, Connections
<1>3. Alone'
  BY DEF Alone, TypeOK, Fenced, Locked, Sending, Open, Upstream, Row
<1>4. VerifiedSecret'
  BY DEF VerifiedSecret, TypeOK, Fenced, Locked, Connections
<1>5. Upstream'
  BY DEF Upstream, TypeOK, Fenced, Open, Row, Sending
<1>6. ASSUME NEW d \in Deliveries PROVE Book(d)'
  BY DEF TypeOK, Book, FutureOf, PairedOf, CountedOf, Served, LastJob, Failures, Missing,
         Allowed, Open, Row, Sending, DeliveryRows, JobRows, Connections,
         Fenced, Locked, Upstream
<1>. QED  BY <1>1, <1>2, <1>3, <1>4, <1>5, <1>6

LEMMA RotateKeeps == ASSUME IInv, Rotate PROVE IInv'
<1>. USE DeliveryAssumption, Keys, Quotas DEF IInv, Rotate, MayChange, Change, source, secrets
<1>1. TypeOK'
  BY DEF TypeOK, Allowed, Row, DeliveryRows, JobRows, Connections, Open, Fenced, Sending
<1>2. Fenced'
  BY DEF Fenced, TypeOK, Alone, Locked, Sending, Open, Upstream, Row, Connections
<1>3. Alone'
  BY DEF Alone, TypeOK, Fenced, Locked, Sending, Open, Upstream, Row
<1>4. VerifiedSecret'
  BY DEF VerifiedSecret, TypeOK, Fenced, Locked, Connections
<1>5. Upstream'
  BY DEF Upstream, TypeOK, Fenced, Open, Row, Sending
<1>6. ASSUME NEW d \in Deliveries PROVE Book(d)'
  BY DEF TypeOK, Book, FutureOf, PairedOf, CountedOf, Served, LastJob, Failures, Missing,
         Allowed, Open, Row, Sending, DeliveryRows, JobRows, Connections,
         Fenced, Locked, Upstream
<1>. QED  BY <1>1, <1>2, <1>3, <1>4, <1>5, <1>6

LEMMA DisconnectKeeps == ASSUME IInv, Disconnect PROVE IInv'
<1>. USE DeliveryAssumption, Keys, Quotas DEF IInv, Disconnect, MayChange, Change, source, secrets
<1>1. TypeOK'
  BY DEF TypeOK, Allowed, Row, DeliveryRows, JobRows, Connections, Open, Fenced, Sending
<1>2. Fenced'
  BY DEF Fenced, TypeOK, Alone, Locked, Sending, Open, Upstream, Row, Connections
<1>3. Alone'
  BY DEF Alone, TypeOK, Fenced, Locked, Sending, Open, Upstream, Row
<1>4. VerifiedSecret'
  BY DEF VerifiedSecret, TypeOK, Fenced, Locked, Connections
<1>5. Upstream'
  BY DEF Upstream, TypeOK, Fenced, Open, Row, Sending
<1>6. ASSUME NEW d \in Deliveries PROVE Book(d)'
  BY DEF TypeOK, Book, FutureOf, PairedOf, CountedOf, Served, LastJob, Failures, Missing,
         Allowed, Open, Row, Sending, DeliveryRows, JobRows, Connections,
         Fenced, Locked, Upstream
<1>. QED  BY <1>1, <1>2, <1>3, <1>4, <1>5, <1>6

LEMMA NextKeeps == ASSUME IInv, [Next]_vars PROVE IInv'
<1>1. ASSUME NEW e \in Events, Source(e) PROVE IInv'
  BY <1>1, EmitKeeps, DrainKeeps, MatchKeeps, FanOutKeeps, FanOutRaisesKeeps, KillFanOutKeeps
     DEF Source, FanOutStep
<1>2. ASSUME NEW k \in JobKeys, JobStep(k) \/ Kill(k) PROVE IInv'
  BY <1>2, TakeKeeps, StartKeeps, BreakKeeps, ConcludeKeeps, FinishKeeps, KillKeeps DEF JobStep
<1>3. ASSUME NEW d \in Deliveries, SendTest(d) \/ RetryDelivery(d) \/ Recover(d) PROVE IInv'
  BY <1>3, SendTestKeeps, RetryDeliveryKeeps, RecoverKeeps
<1>4. CASE EndRequest \/ KillRequest \/ Pause \/ Resume \/ Rotate \/ Disconnect
  BY <1>4, FinishRequestKeeps, KillRequestKeeps, PauseKeeps, ResumeKeeps, RotateKeeps,
     DisconnectKeeps DEF EndRequest
<1>5. CASE UNCHANGED vars
  BY <1>5 DEF vars, IInv, TypeOK, Fenced, Alone, VerifiedSecret, Upstream, Book, FutureOf, PairedOf,
              CountedOf, Served, LastJob, Failures, Missing, Allowed, Open, Locked, Sending
<1>. QED  BY <1>1, <1>2, <1>3, <1>4, <1>5 DEF Next

LEMMA Invariance == Spec => []IInv
BY Initially, NextKeeps, PTL DEF Spec

-------------------------------------------------------------------------------
\* The rows keep their types, and no mix of attempts by jobs and by owners'
\* requests, faults and recoveries gives a delivery more attempts than its
\* creation and its recoveries allow.
THEOREM Typed == Spec => []TypeOK
<1>1. IInv => TypeOK
  BY DEF IInv
<1>. QED  BY <1>1, Invariance, PTL

\* While the connection says paused or disconnected no signed event is on its
\* way, and there is never more than one.
THEOREM Quiet == Spec => []QuietWhilePaused
<1>1. IInv => QuietWhilePaused
  BY DEF IInv, Fenced, Alone, QuietWhilePaused
<1>. QED  BY <1>1, Invariance, PTL

\* A connection that says verified has proved its present secret.
THEOREM Verified == Spec => []VerifiedSecret
<1>1. IInv => VerifiedSecret
  BY DEF IInv
<1>. QED  BY <1>1, Invariance, PTL

\* What is still to be sent has a job that will send it, its last one, however its
\* attempts were shared between jobs and owners: only a job that met errors which
\* are no attempts may be given up before its delivery.
THEOREM Driven == Spec => []OpenHasJob
<1>1. ASSUME IInv, NEW d \in Deliveries, Open(d), d \in Events \/ delivery[d].recoveries > 0
      PROVE  GivenUp(d) \/ \E r \in 0 .. MaxRecoveries : Live(<<d, r>>)
  <2>1. delivery[d].recoveries \in 0 .. MaxRecoveries /\ delivery[d].status # "absent"
    BY <1>1 DEF IInv, TypeOK, DeliveryRows, Open
  <2>2. GivenUp(d) \/ LastJob(d).phase \notin {"absent", "completed", "dead_letter"}
    BY <1>1, <2>1 DEF IInv, Book, PairedOf, CountedOf, Served, GivenUp
  <2>. QED  BY <2>1, <2>2 DEF Live, LastJob
<1>2. IInv => OpenHasJob
  BY <1>1 DEF OpenHasJob
<1>. QED  BY <1>2, Invariance, PTL

\* Every change to a delivery starts from one that is not settled.
LEMMA SettledStays ==
  ASSUME IInv, [Next]_vars, NEW d \in Deliveries, delivery[d].status \in {"delivered", "cancelled"}
  PROVE  delivery'[d] = delivery[d]
<1>. USE DEF IInv, Open
<1>1. ASSUME NEW e \in Events, Source(e) PROVE delivery'[d] = delivery[d]
  BY <1>1 DEF Source, FanOutStep, Emit, Drain, Match, FanOut, FanOutRaises, KillFanOut, Upstream, TypeOK
<1>2. ASSUME NEW k \in JobKeys, JobStep(k) \/ Kill(k) PROVE delivery'[d] = delivery[d]
  <2>1. k[1] \in Deliveries /\ (Sending(k) => Open(k[1]))
    BY Keys DEF Fenced
  <2>. QED  BY <1>2, <2>1 DEF JobStep, Take, Start, Break, Conclude, Finish, Kill, Record, TypeOK
<1>3. ASSUME NEW b \in Deliveries, SendTest(b) \/ RetryDelivery(b) \/ Recover(b)
      PROVE  delivery'[d] = delivery[d]
  BY <1>3 DEF SendTest, RetryDelivery, Retryable, Recover, TypeOK
<1>4. CASE EndRequest
  BY <1>4 DEF EndRequest, FinishRequest, Record, Fenced, TypeOK
<1>5. CASE KillRequest \/ Pause \/ Resume \/ Rotate \/ Disconnect \/ UNCHANGED vars
  BY <1>5 DEF KillRequest, Pause, Resume, Rotate, Disconnect, Change, vars
<1>. QED  BY <1>1, <1>2, <1>3, <1>4, <1>5 DEF Next

\* "This event was already delivered and will not be sent twice", for the
\* owner's retry, the recovery and every job the delivery ever had.
THEOREM SentOnce == Spec => NeverSentAgain
<1>1. ASSUME IInv, IInv', [Next]_vars, NEW d \in Deliveries,
             delivery[d].status \in {"delivered", "cancelled"}
      PROVE  delivery'[d] = delivery[d] /\ request' # d
  <2>1. delivery'[d] = delivery[d]
    BY <1>1, SettledStays
  <2>2. request' # NoDelivery => Open(request)'
    BY <1>1 DEF IInv, Fenced
  <2>. QED  BY <1>1, <2>1, <2>2, DeliveryAssumption DEF Open
<1>2. IInv /\ IInv' /\ [Next]_vars =>
        [\A d \in Deliveries : delivery[d].status \in {"delivered", "cancelled"} =>
           delivery'[d] = delivery[d] /\ request' # d]_vars
  BY <1>1
<1>. QED  BY <1>2, Invariance, PTL DEF Spec, NeverSentAgain
==============================================================================
