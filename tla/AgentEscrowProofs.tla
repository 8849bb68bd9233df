-------------------------- MODULE AgentEscrowProofs --------------------------
(***************************************************************************)
(* Theorems about AgentEscrow.tla, for every set of accounts, amounts and  *)
(* requests, every bound, and every depth of the calls in progress.        *)
(*                                                                         *)
(* A revert takes both contracts back to what they were when the call      *)
(* began, so an invariant of the current storages alone is not inductive.  *)
(* EscrowInv says of every level of the two stacks, of the current and of  *)
(* the committed storages that                                             *)
(*   - the escrow's books balance and match the router's requests          *)
(*     (BooksOK), and every job stands where its request says (JobOKIn),   *)
(*     given which payments are in progress at that level;                 *)
(*   - the level is reached from the committed one by steps that           *)
(*     Settlement.tla allows in one go (Onward), which is what makes the   *)
(*     end of the transaction one step of Settlement.                      *)
(*                                                                         *)
(* In order: sums of bounties; what is good at one level and what one      *)
(* level may become of another; the stacks; one lemma for each action;     *)
(* the theorems.                                                           *)
(***************************************************************************)
EXTENDS AgentEscrow, GatewayRouterProofs, FiniteSetTheorems, WellFoundedInduction

(* Induction over the natural numbers, for sets. *)
LEMMA NatSetInduction ==
  ASSUME NEW S, 0 \in S, \A n \in Nat : n \in S => n + 1 \in S
  PROVE  \A n \in Nat : n \in S
<1> DEFINE R == OpToRel(<, Nat)
           Out == {n \in Nat : n \notin S}
<1> SUFFICES ASSUME Out # {} PROVE FALSE
  OBVIOUS
<1>1. PICK m \in Out : \A k \in Out : ~(<<k, m>> \in R)
  BY NatLessThanWellFounded, WFMin
<1>2. m \in Nat /\ m # 0 /\ m - 1 \in Nat
  OBVIOUS
<1>3. <<m - 1, m>> \in R
  BY <1>2 DEF OpToRel
<1>4. m - 1 \in S
  BY <1>1, <1>2, <1>3
<1> QED
  BY <1>2, <1>4

(* f sums up d. *)
RunsUp(f, d, N) ==
  /\ DOMAIN f = 0 .. N
  /\ f = [n \in 0 .. N |-> IF n = 0 THEN 0 ELSE f[n - 1] + d[n]]

(* A running total exists, for any amounts. *)
LEMMA SumExists ==
  ASSUME NEW N \in Nat, NEW d \in [1 .. N -> Nat]
  PROVE  \E f : RunsUp(f, d, N)
<1> DEFINE S == {m \in Nat : m <= N => \E f : RunsUp(f, d, m)}
<1>1. 0 \in S
  <2>1. RunsUp([n \in 0 .. 0 |-> 0], d, 0)
    BY DEF RunsUp
  <2> QED
    BY <2>1
<1>2. ASSUME NEW m \in Nat, m \in S PROVE m + 1 \in S
  <2> SUFFICES ASSUME m + 1 <= N PROVE \E f : RunsUp(f, d, m + 1)
    OBVIOUS
  <2>1. PICK f : RunsUp(f, d, m)
    BY <1>2
  <2> DEFINE g == [n \in 0 .. m + 1 |-> IF n = m + 1 THEN f[m] + d[m + 1] ELSE f[n]]
  <2>2. ASSUME NEW n \in 0 .. m + 1
        PROVE  g[n] = IF n = 0 THEN 0 ELSE g[n - 1] + d[n]
    <3>1. CASE n = m + 1
      <4>1. n # 0 /\ n - 1 = m /\ m \in 0 .. m + 1 /\ m # m + 1
        BY <3>1
      <4> QED
        BY <3>1, <4>1
    <3>2. CASE n \in 0 .. m
      <4>1. f[n] = IF n = 0 THEN 0 ELSE f[n - 1] + d[n]
        BY <2>1, <3>2 DEF RunsUp
      <4>2. n # m + 1 /\ (n # 0 => n - 1 \in 0 .. m + 1 /\ n - 1 # m + 1)
        BY <3>2
      <4> QED
        BY <4>1, <4>2
    <3> QED
      BY <3>1, <3>2
  <2>3. RunsUp(g, d, m + 1)
    <3> DEFINE h == [n \in 0 .. m + 1 |-> IF n = 0 THEN 0 ELSE g[n - 1] + d[n]]
    <3>1. DOMAIN g = 0 .. m + 1 /\ DOMAIN h = 0 .. m + 1
          /\ \A n \in 0 .. m + 1 : g[n] = h[n]
      BY <2>2
    <3>2. g = [n \in 0 .. m + 1 |-> g[n]] /\ h = [n \in 0 .. m + 1 |-> h[n]]
      OBVIOUS
    <3> HIDE DEF g
    <3>3. g = h
      BY <3>1, <3>2
    <3> QED
      BY <3>1, <3>3 DEF RunsUp
  <2> QED
    BY <2>3
<1> HIDE DEF S
<1>3. N \in S
  BY <1>1, <1>2, NatSetInduction
<1> QED
  BY <1>3 DEF S

(* What the running total is: its start, its steps and its type. *)
LEMMA OwedRunsUp ==
  ASSUME NEW js \in Seq(Job)
  PROVE  \E f \in [0 .. Len(js) -> Nat] :
           /\ Owed(js) = f[Len(js)]
           /\ f[0] = 0
           /\ \A n \in 1 .. Len(js) : f[n] = f[n - 1] + Due(js[n])
<1> DEFINE N == Len(js)
           d == [n \in 1 .. N |-> Due(js[n])]
           f == CHOOSE f : f = [n \in 0 .. N |-> IF n = 0 THEN 0 ELSE f[n - 1] + Due(js[n])]
<1>1. N \in Nat /\ \A n \in 1 .. N : js[n] \in Job /\ Due(js[n]) \in Nat
  <2>1. N \in Nat /\ js \in [1 .. N -> Job]
    BY LenProperties
  <2>2. \A job \in Job : Due(job) \in Nat
    BY EscrowConstants DEF Due, IsHeld, Job
  <2> QED
    BY <2>1, <2>2
<1>2. d \in [1 .. N -> Nat]
  BY <1>1
<1>3. PICK g : RunsUp(g, d, N)
  BY <1>1, <1>2, SumExists
<1>4. g = [n \in 0 .. N |-> IF n = 0 THEN 0 ELSE g[n - 1] + Due(js[n])]
  BY <1>3 DEF RunsUp
<1>5. f = [n \in 0 .. N |-> IF n = 0 THEN 0 ELSE f[n - 1] + Due(js[n])]
  BY <1>4
<1>6. Owed(js) = f[N]
  BY DEF Owed
<1> HIDE DEF f
<1>7. DOMAIN f = 0 .. N
  BY <1>5
<1>8. f[0] = 0 /\ \A n \in 1 .. N : f[n] = f[n - 1] + Due(js[n])
  BY <1>1, <1>5
<1>9. \A n \in Nat : n \in {m \in Nat : m <= N => f[m] \in Nat}
  <2> DEFINE S == {m \in Nat : m <= N => f[m] \in Nat}
  <2>1. 0 \in S
    BY <1>8
  <2>2. ASSUME NEW m \in Nat, m \in S PROVE m + 1 \in S
    <3> SUFFICES ASSUME m + 1 <= N PROVE f[m + 1] \in Nat
      OBVIOUS
    <3>1. f[m] \in Nat /\ m + 1 \in 1 .. N /\ (m + 1) - 1 = m
      BY <1>1, <2>2
    <3> QED
      BY <1>1, <1>8, <3>1
  <2> HIDE DEF S
  <2>3. \A n \in Nat : n \in S
    BY <2>1, <2>2, NatSetInduction
  <2> QED
    BY <2>3 DEF S
<1>10. f \in [0 .. N -> Nat]
  BY <1>1, <1>5, <1>7, <1>9
<1> QED
  BY <1>6, <1>8, <1>10

(* f and g are the running totals of what the first m jobs of d and e owe. *)
SameDues(f, g, d, e, m) ==
  /\ f[0] = 0 /\ g[0] = 0
  /\ \A n \in 1 .. m : f[n] = f[n - 1] + Due(d[n])
  /\ \A n \in 1 .. m : g[n] = g[n - 1] + Due(e[n])

(* Two lists of jobs whose first m jobs owe the same owe as much up to m. *)
LEMMA SamePrefixOwed ==
  ASSUME NEW f, NEW g, NEW d, NEW e, NEW m \in Nat, SameDues(f, g, d, e, m),
         \A n \in 1 .. m : Due(d[n]) = Due(e[n])
  PROVE  f[m] = g[m]
<1> DEFINE S == {n \in Nat : n <= m => f[n] = g[n]}
<1>1. 0 \in S
  BY DEF SameDues
<1>2. ASSUME NEW n \in Nat, n \in S PROVE n + 1 \in S
  <2> SUFFICES ASSUME n + 1 <= m PROVE f[n + 1] = g[n + 1]
    OBVIOUS
  <2>1. f[n] = g[n] /\ n + 1 \in 1 .. m /\ (n + 1) - 1 = n
    BY <1>2
  <2> QED
    BY <2>1 DEF SameDues
<1> HIDE DEF S
<1>3. m \in S
  BY <1>1, <1>2, NatSetInduction
<1> QED
  BY <1>3 DEF S

(* A list with one job changed owes as much more as that job does. *)
LEMMA OneJobOwed ==
  ASSUME NEW js \in Seq(Job), NEW ks \in Seq(Job), Len(ks) = Len(js),
         NEW j \in 1 .. Len(js),
         \A n \in 1 .. Len(js) : n # j => ks[n] = js[n]
  PROVE  /\ Owed(js) \in Nat /\ Owed(ks) \in Nat
         /\ Owed(ks) = Owed(js) - Due(js[j]) + Due(ks[j])
<1> DEFINE N == Len(js)
<1>1. N \in Nat
  BY LenProperties
<1>2. PICK f \in [0 .. N -> Nat] :
        /\ Owed(js) = f[N] /\ f[0] = 0
        /\ \A n \in 1 .. N : f[n] = f[n - 1] + Due(js[n])
  BY OwedRunsUp
<1>3. PICK g \in [0 .. N -> Nat] :
        /\ Owed(ks) = g[N] /\ g[0] = 0
        /\ \A n \in 1 .. N : g[n] = g[n - 1] + Due(ks[n])
  BY OwedRunsUp
<1>4. js[j] \in Job /\ ks[j] \in Job
  BY LenProperties
<1>5. Due(js[j]) \in Nat /\ Due(ks[j]) \in Nat
  BY <1>4, EscrowConstants DEF Due, IsHeld, Job
<1>6. f[j - 1] = g[j - 1]
  <2>1. j - 1 \in Nat
    BY <1>1
  <2>2. SameDues(f, g, js, ks, j - 1)
    BY <1>1, <1>2, <1>3 DEF SameDues
  <2>3. \A n \in 1 .. j - 1 : Due(js[n]) = Due(ks[n])
    BY <1>1
  <2> QED
    BY <2>1, <2>2, <2>3, SamePrefixOwed
<1> DEFINE S == {n \in Nat : j + n <= N => g[j + n] = f[j + n] - Due(js[j]) + Due(ks[j])}
<1>7. 0 \in S
  <2>1. f[j] = f[j - 1] + Due(js[j]) /\ g[j] = g[j - 1] + Due(ks[j])
    BY <1>2, <1>3
  <2>2. f[j - 1] \in Nat /\ f[j] \in Nat /\ g[j] \in Nat
    <3>1. j - 1 \in 0 .. N /\ j \in 0 .. N
      BY <1>1
    <3> QED
      BY <1>2, <1>3, <3>1
  <2>3. j + 0 = j
    BY <1>1
  <2> QED
    BY <1>5, <1>6, <2>1, <2>2, <2>3
<1>8. ASSUME NEW n \in Nat, n \in S PROVE n + 1 \in S
  <2> SUFFICES ASSUME j + (n + 1) <= N
               PROVE  g[j + (n + 1)] = f[j + (n + 1)] - Due(js[j]) + Due(ks[j])
    OBVIOUS
  <2>1. /\ j + n \in 0 .. N /\ j + (n + 1) \in 1 .. N
        /\ (j + (n + 1)) - 1 = j + n /\ j + (n + 1) # j
    BY <1>1
  <2>2. g[j + n] = f[j + n] - Due(js[j]) + Due(ks[j])
    BY <1>1, <1>8, <2>1
  <2>3. Due(ks[j + (n + 1)]) = Due(js[j + (n + 1)])
    BY <2>1
  <2>4. /\ f[j + (n + 1)] = f[j + n] + Due(js[j + (n + 1)])
        /\ g[j + (n + 1)] = g[j + n] + Due(js[j + (n + 1)])
    BY <1>2, <1>3, <2>1, <2>3
  <2>5. f[j + n] \in Nat /\ g[j + n] \in Nat /\ Due(js[j + (n + 1)]) \in Nat
    <3>1. js[j + (n + 1)] \in Job
      BY <2>1, LenProperties
    <3> QED
      BY <1>2, <1>3, <2>1, <3>1, EscrowConstants DEF Due, IsHeld, Job
  <2> QED
    BY <1>5, <2>2, <2>4, <2>5
<1> HIDE DEF S
<1>9. N - j \in S
  <2>1. \A n \in Nat : n \in S
    BY <1>7, <1>8, NatSetInduction
  <2> QED
    BY <1>1, <2>1
<1>10. g[N] = f[N] - Due(js[j]) + Due(ks[j])
  BY <1>1, <1>9 DEF S
<1> QED
  BY <1>1, <1>2, <1>3, <1>10

(* A list with a job more owes that job's bounty more. *)
LEMMA NewJobOwed ==
  ASSUME NEW js \in Seq(Job), NEW job \in Job
  PROVE  Owed(js) \in Nat /\ Owed(Append(js, job)) = Owed(js) + Due(job)
<1> DEFINE N == Len(js)
           ks == Append(js, job)
<1>1. /\ N \in Nat /\ ks \in Seq(Job) /\ Len(ks) = N + 1
      /\ ks[N + 1] = job /\ \A n \in 1 .. N : ks[n] = js[n]
  BY LenProperties, AppendProperties
<1> HIDE DEF ks
<1>2. PICK f \in [0 .. N -> Nat] :
        /\ Owed(js) = f[N] /\ f[0] = 0
        /\ \A n \in 1 .. N : f[n] = f[n - 1] + Due(js[n])
  BY OwedRunsUp
<1>3. PICK g \in [0 .. N + 1 -> Nat] :
        /\ Owed(ks) = g[N + 1] /\ g[0] = 0
        /\ \A n \in 1 .. N + 1 : g[n] = g[n - 1] + Due(ks[n])
  BY <1>1, OwedRunsUp
<1>4. SameDues(f, g, js, ks, N)
  BY <1>1, <1>2, <1>3 DEF SameDues
<1>5. f[N] = g[N]
  BY <1>1, <1>4, SamePrefixOwed
<1>6. g[N + 1] = g[N] + Due(job)
  BY <1>1, <1>3
<1> QED
  BY <1>1, <1>2, <1>3, <1>5, <1>6 DEF ks
-----------------------------------------------------------------------------
(* The requests the escrow asked for, of those a storage of the router holds.*)
OwnIds(s) == {id \in DOMAIN s.requests : id.requester = Escrow}

PaidFor(job) ==
  CASE job.status = "Released" -> <<job.worker>>
    [] job.status = "Refunded" -> <<job.client>>
    [] OTHER -> <<>>

(* How far a job has come, given what the router holds of its request and    *)
(* whether its payment is in progress.                                       *)
FollowsRequest(job, r, inPayment, t) ==
  /\ r.status = "Dispatched" =>
       /\ r.decision = "None"
       /\ \/ job.status = "VerificationPending"
          \/ job.status \in {"TimedOut", "Refunded"} /\ t > job.requestId.expiry
  /\ r.status = "CallbackPending" =>
       /\ r.decision \in Verdicts
       /\ ~inPayment => job.status = "VerificationPending"
       /\ inPayment => /\ r.decision # "Undetermined"
                       /\ job.status \in Outcomes(r.decision)
  /\ r.status = "CallbackExecuted" =>
       /\ r.decision \in Verdicts
       /\ job.status \in Outcomes(r.decision)

JobOK(job, r, inPayment, t) ==
  /\ job.status \in {"Created", "EvidenceSubmitted"} => job.requestId = NoRequest
  /\ job.status \in {"VerificationPending", "Released", "Undetermined"} =>
       job.requestId # NoRequest
  /\ job.status = "TimedOut" => t > job.deadline
  /\ job.requestId # NoRequest =>
       /\ job.requestId.callback = Escrow
       /\ job.requestId.expiry <= job.deadline
       /\ FollowsRequest(job, r, inPayment, t)

(* The books of the escrow as such, and with those of the router. *)
BooksOK(s, e) ==
  /\ IsEscrowStorage(e)
  /\ e.paidTo \in Seq(Seq(Clients \cup Workers))
  /\ e.escrowBalance = Owed(e.jobs)
  /\ e.nextVerificationNonce = s.latestNonce[Escrow] + 1
  /\ DOMAIN e.requestToJob = OwnIds(s)
  /\ \A id \in OwnIds(s) : e.jobs[e.requestToJob[id]].requestId = id

JobOKIn(s, e, paid, t, j) ==
  LET job == e.jobs[j]
  IN /\ e.paidTo[j] = PaidFor(job)
     /\ job.requestId # NoRequest =>
          job.requestId \in OwnIds(s) /\ e.requestToJob[job.requestId] = j
     /\ JobOK(job, s.requests[job.requestId], job.requestId \in paid, t)

LevelOK(s, e, paid, pays, t) ==
  /\ BooksOK(s, e)
  /\ e.transferLocked <=> pays # {}
  /\ \A j \in 1 .. Len(e.jobs) : JobOKIn(s, e, paid, t, j)

-----------------------------------------------------------------------------
(* What becomes of a job within a transaction is what Settlement allows.     *)
VerdictFor(s, job) ==
  IF job.requestId = NoRequest THEN "None" ELSE s.requests[job.requestId].decision

KeptJob(v, job, w, next, t) ==
  /\ next.deadline = job.deadline
  /\ w # v =>
       v = "None" /\ CustodyOf(job) = "Held" /\ t <= job.deadline
  /\ CustodyOf(next) # CustodyOf(job) =>
       /\ CustodyOf(job) = "Held"
       /\ \/ CustodyOf(next) = "Worker" /\ w = "Pass"
          \/ /\ CustodyOf(next) = "Client"
             /\ \/ w = "Fail"
                \/ w \in {"None", "Undetermined"} /\ t > job.deadline

(* A verdict answers a request known to other chains, and a job asks once.   *)
AnsweredJob(known, v, job, w, next) ==
  /\ \/ next.requestId = job.requestId
     \/ job.requestId = NoRequest /\ next.requestId \notin known
  /\ w # v => next.requestId \in known

PostedJob(known, v, job, t) ==
  /\ CustodyOf(job) = "Held"
  /\ v = "None"
  /\ job.deadline > t
  /\ job.requestId \notin known

Onward(known, s, e, z, f, t) ==
  /\ DOMAIN s.requests \subseteq DOMAIN z.requests
  /\ Len(e.jobs) <= Len(f.jobs)
  /\ \A j \in 1 .. Len(e.jobs) :
       /\ KeptJob(VerdictFor(s, e.jobs[j]), e.jobs[j],
                  VerdictFor(z, f.jobs[j]), f.jobs[j], t)
       /\ AnsweredJob(known, VerdictFor(s, e.jobs[j]), e.jobs[j],
                      VerdictFor(z, f.jobs[j]), f.jobs[j])
  /\ \A j \in Len(e.jobs) + 1 .. Len(f.jobs) :
       PostedJob(known, VerdictFor(z, f.jobs[j]), f.jobs[j], t)

(* What happens to a job in two goes, it may do in one. *)
LEMMA KeptTransitive ==
  ASSUME NEW u, NEW a, NEW v, NEW b, NEW w, NEW c, NEW t, NEW known,
         NoRequest \notin known,
         KeptJob(u, a, v, b, t), KeptJob(v, b, w, c, t),
         AnsweredJob(known, u, a, v, b), AnsweredJob(known, v, b, w, c)
  PROVE  KeptJob(u, a, w, c, t) /\ AnsweredJob(known, u, a, w, c)
<1>1. KeptJob(u, a, w, c, t)
  BY DEF KeptJob
<1>2. AnsweredJob(known, u, a, w, c)
  BY DEF AnsweredJob
<1> QED
  BY <1>1, <1>2

(* A job posted in the first of two goes is posted by both. *)
LEMMA PostedKept ==
  ASSUME NEW v, NEW b, NEW w, NEW c, NEW t \in Nat, NEW known,
         b.deadline \in Nat, NoRequest \notin known,
         PostedJob(known, v, b, t), KeptJob(v, b, w, c, t),
         AnsweredJob(known, v, b, w, c)
  PROVE  PostedJob(known, w, c, t)
BY DEF PostedJob, KeptJob, AnsweredJob

(* Onward is transitive: the steps of a transaction add up. *)
LEMMA OnwardTransitive ==
  ASSUME NEW known, NoRequest \notin known, NEW t \in Nat,
         NEW s, NEW e, NEW z, NEW f, NEW y, NEW g,
         e.jobs \in Seq(Job), f.jobs \in Seq(Job), g.jobs \in Seq(Job),
         Onward(known, s, e, z, f, t), Onward(known, z, f, y, g, t)
  PROVE  Onward(known, s, e, y, g, t)
<1>1. /\ Len(e.jobs) \in Nat /\ Len(f.jobs) \in Nat /\ Len(g.jobs) \in Nat
      /\ Len(e.jobs) <= Len(f.jobs) /\ Len(f.jobs) <= Len(g.jobs)
      /\ \A j \in 1 .. Len(f.jobs) : f.jobs[j].deadline \in Nat
  <2>1. \A j \in 1 .. Len(f.jobs) : f.jobs[j] \in Job
    BY LenProperties
  <2>2. \A job \in Job : job.deadline \in Nat
    BY RouterConstants DEF Job, Times
  <2>3. Len(e.jobs) \in Nat /\ Len(f.jobs) \in Nat /\ Len(g.jobs) \in Nat
    BY LenProperties
  <2>4. Len(e.jobs) <= Len(f.jobs) /\ Len(f.jobs) <= Len(g.jobs)
    BY DEF Onward
  <2> QED
    BY <2>1, <2>2, <2>3, <2>4
<1>2. DOMAIN s.requests \subseteq DOMAIN y.requests
  BY DEF Onward
<1>3. ASSUME NEW j \in 1 .. Len(e.jobs)
      PROVE  /\ KeptJob(VerdictFor(s, e.jobs[j]), e.jobs[j],
                        VerdictFor(y, g.jobs[j]), g.jobs[j], t)
             /\ AnsweredJob(known, VerdictFor(s, e.jobs[j]), e.jobs[j],
                            VerdictFor(y, g.jobs[j]), g.jobs[j])
  <2>1. j \in 1 .. Len(f.jobs)
    BY <1>1
  <2>2. /\ KeptJob(VerdictFor(s, e.jobs[j]), e.jobs[j],
                   VerdictFor(z, f.jobs[j]), f.jobs[j], t)
        /\ AnsweredJob(known, VerdictFor(s, e.jobs[j]), e.jobs[j],
                       VerdictFor(z, f.jobs[j]), f.jobs[j])
    BY DEF Onward
  <2>3. /\ KeptJob(VerdictFor(z, f.jobs[j]), f.jobs[j],
                   VerdictFor(y, g.jobs[j]), g.jobs[j], t)
        /\ AnsweredJob(known, VerdictFor(z, f.jobs[j]), f.jobs[j],
                       VerdictFor(y, g.jobs[j]), g.jobs[j])
    BY <2>1 DEF Onward
  <2> QED
    BY <2>2, <2>3, KeptTransitive
<1>4. ASSUME NEW j \in Len(e.jobs) + 1 .. Len(g.jobs)
      PROVE  PostedJob(known, VerdictFor(y, g.jobs[j]), g.jobs[j], t)
  <2>1. CASE j \in Len(e.jobs) + 1 .. Len(f.jobs)
    <3>1. j \in 1 .. Len(f.jobs)
      BY <1>1, <2>1
    <3>2. PostedJob(known, VerdictFor(z, f.jobs[j]), f.jobs[j], t)
      BY <2>1 DEF Onward
    <3>3. /\ KeptJob(VerdictFor(z, f.jobs[j]), f.jobs[j],
                     VerdictFor(y, g.jobs[j]), g.jobs[j], t)
          /\ AnsweredJob(known, VerdictFor(z, f.jobs[j]), f.jobs[j],
                         VerdictFor(y, g.jobs[j]), g.jobs[j])
      BY <3>1 DEF Onward
    <3> QED
      BY <1>1, <3>1, <3>2, <3>3, PostedKept
  <2>2. CASE j \in Len(f.jobs) + 1 .. Len(g.jobs)
    BY <2>2 DEF Onward
  <2> QED
    BY <1>1, <2>1, <2>2
<1> QED
  BY <1>1, <1>2, <1>3, <1>4 DEF Onward

(* Onward is reflexive. *)
LEMMA OnwardReflexive ==
  ASSUME NEW known, NEW t, NEW s, NEW e, e.jobs \in Seq(Job)
  PROVE  Onward(known, s, e, s, e, t)
<1>1. Len(e.jobs) \in Nat
  BY LenProperties
<1>2. \A v, job : KeptJob(v, job, v, job, t) /\ AnsweredJob(known, v, job, v, job)
  BY DEF KeptJob, AnsweredJob
<1>3. Len(e.jobs) + 1 .. Len(e.jobs) = {}
  BY <1>1
<1> QED
  BY <1>1, <1>2, <1>3 DEF Onward

-----------------------------------------------------------------------------
(* The other requests of the escrow are as they were. *)
OthersAlike(s, z, paid, paying, x) ==
  /\ OwnIds(z) = OwnIds(s)
  /\ DOMAIN s.requests \subseteq DOMAIN z.requests
  /\ z.latestNonce[Escrow] = s.latestNonce[Escrow]
  /\ \A q \in OwnIds(s) \ {x} :
       /\ z.requests[q].status = s.requests[q].status
       /\ z.requests[q].decision = s.requests[q].decision
       /\ q \in paying <=> q \in paid

(* Only job j changes, and the balance by what is no longer due to it. *)
OneJobChanges(e, f, j, job) ==
  /\ f.jobs \in Seq(Job) /\ Len(f.jobs) = Len(e.jobs)
  /\ f.jobs[j] = job
  /\ \A k \in 1 .. Len(e.jobs) : k # j => f.jobs[k] = e.jobs[k]
  /\ f.paidTo \in Seq(Seq(Clients \cup Workers)) /\ Len(f.paidTo) = Len(e.jobs)
  /\ f.paidTo[j] = PaidFor(job)
  /\ \A k \in 1 .. Len(e.jobs) : k # j => f.paidTo[k] = e.paidTo[k]
  /\ f.escrowBalance = e.escrowBalance - Due(e.jobs[j]) + Due(job)
  /\ f.requestToJob = e.requestToJob
  /\ f.nextVerificationNonce = e.nextVerificationNonce
  /\ job.requestId = e.jobs[j].requestId

JobGoesOn(known, s, z, paying, t, job, next) ==
  /\ JobOK(next, z.requests[next.requestId], next.requestId \in paying, t)
  /\ KeptJob(VerdictFor(s, job), job, VerdictFor(z, next), next, t)
  /\ VerdictFor(z, next) # VerdictFor(s, job) => next.requestId \in known

Locked(f, pays) == f.transferLocked \in BOOLEAN /\ (f.transferLocked <=> pays # {})

(* JobOK reads no more of a request than its status and decision. *)
LEMMA SameJobOK ==
  ASSUME NEW job, NEW r, NEW z, NEW p, NEW q, NEW t,
         JobOK(job, r, p, t), z.status = r.status, z.decision = r.decision,
         p <=> q
  PROVE  JobOK(job, z, q, t)
BY DEF JobOK, FollowsRequest

(* A step that changes one job and its request, at most. *)
LEMMA OneJobMoves ==
  ASSUME NEW s, NEW e, NEW paid, NEW pays, NEW t, LevelOK(s, e, paid, pays, t),
         NEW z, NEW f, NEW paying, NEW paysNow, NEW known,
         NEW j \in 1 .. Len(e.jobs), NEW job \in Job,
         OthersAlike(s, z, paid, paying, e.jobs[j].requestId),
         OneJobChanges(e, f, j, job),
         JobGoesOn(known, s, z, paying, t, e.jobs[j], job),
         Locked(f, paysNow)
  PROVE  LevelOK(z, f, paying, paysNow, t) /\ Onward(known, s, e, z, f, t)
<1> DEFINE N == Len(e.jobs)
<1>1. /\ N \in Nat /\ e.jobs \in Seq(Job)
      /\ BooksOK(s, e) /\ \A k \in 1 .. N : JobOKIn(s, e, paid, t, k)
  BY LenProperties DEF LevelOK, BooksOK, IsEscrowStorage, EscrowStorage
<1>2. /\ f.jobs \in Seq(Job) /\ Len(f.jobs) = N /\ f.jobs[j] = job
      /\ \A k \in 1 .. N : k # j => f.jobs[k] = e.jobs[k]
      /\ \A k \in 1 .. N : f.jobs[k].requestId = e.jobs[k].requestId
  BY DEF OneJobChanges
<1>3. BooksOK(z, f)
  <2>1. f.escrowBalance = Owed(f.jobs) /\ f.escrowBalance \in Nat
    <3>1. Owed(f.jobs) \in Nat /\ Owed(f.jobs) = Owed(e.jobs) - Due(e.jobs[j]) + Due(f.jobs[j])
      BY <1>1, <1>2, OneJobOwed
    <3> QED
      BY <1>1, <1>2, <3>1 DEF OneJobChanges, BooksOK
  <2>2. /\ DOMAIN f.requestToJob = OwnIds(z)
        /\ f.nextVerificationNonce = z.latestNonce[Escrow] + 1
    BY <1>1 DEF OneJobChanges, OthersAlike, BooksOK
  <2>3. \A id \in OwnIds(z) : f.jobs[f.requestToJob[id]].requestId = id
    <3>1. \A id \in OwnIds(z) : e.requestToJob[id] \in 1 .. N
      BY <1>1 DEF OthersAlike, BooksOK, IsEscrowStorage
    <3>2. \A id \in OwnIds(z) : e.jobs[e.requestToJob[id]].requestId = id
      BY <1>1 DEF OthersAlike, BooksOK
    <3>3. f.requestToJob = e.requestToJob
      BY DEF OneJobChanges
    <3> QED
      BY <1>2, <3>1, <3>2, <3>3
  <2>4. IsEscrowStorage(f)
    BY <1>1, <1>2, <2>1 DEF BooksOK, IsEscrowStorage, OneJobChanges, Locked
  <2> QED
    BY <2>1, <2>2, <2>3, <2>4 DEF BooksOK, OneJobChanges
<1>4. ASSUME NEW k \in 1 .. N, k # j
      PROVE  /\ JobOKIn(z, f, paying, t, k)
             /\ VerdictFor(z, f.jobs[k]) = VerdictFor(s, e.jobs[k])
  <2> DEFINE q == e.jobs[k].requestId
  <2>1. JobOKIn(s, e, paid, t, k) /\ JobOKIn(s, e, paid, t, j)
    BY <1>1
  <2>2. f.jobs[k] = e.jobs[k] /\ f.paidTo[k] = e.paidTo[k] /\ f.requestToJob = e.requestToJob
    BY <1>4 DEF OneJobChanges
  <2>3. CASE q = NoRequest
    BY <2>1, <2>2, <2>3 DEF JobOKIn, JobOK, VerdictFor
  <2>4. CASE q # NoRequest
    <3>1. q \in OwnIds(s) /\ q # e.jobs[j].requestId
      BY <1>4, <2>1, <2>4 DEF JobOKIn
    <3>2. /\ q \in OwnIds(z)
          /\ z.requests[q].status = s.requests[q].status
          /\ z.requests[q].decision = s.requests[q].decision
          /\ q \in paid <=> q \in paying
      BY <3>1 DEF OthersAlike
    <3>3. JobOK(e.jobs[k], s.requests[q], q \in paid, t)
      BY <2>1 DEF JobOKIn
    <3>4. JobOK(e.jobs[k], z.requests[q], q \in paying, t)
      BY <3>2, <3>3, SameJobOK
    <3> QED
      BY <2>1, <2>2, <2>4, <3>2, <3>4 DEF JobOKIn, VerdictFor
  <2> QED
    BY <2>3, <2>4
<1>5. JobOKIn(z, f, paying, t, j)
  <2>1. JobOKIn(s, e, paid, t, j) /\ OwnIds(z) = OwnIds(s)
    BY <1>1 DEF OthersAlike
  <2> QED
    BY <1>2, <2>1 DEF JobOKIn, OneJobChanges, JobGoesOn
<1>6. Onward(known, s, e, z, f, t)
  <2>1. ASSUME NEW k \in 1 .. N
        PROVE  /\ KeptJob(VerdictFor(s, e.jobs[k]), e.jobs[k],
                          VerdictFor(z, f.jobs[k]), f.jobs[k], t)
               /\ AnsweredJob(known, VerdictFor(s, e.jobs[k]), e.jobs[k],
                              VerdictFor(z, f.jobs[k]), f.jobs[k])
    <3> DEFINE v == VerdictFor(s, e.jobs[k])
               w == VerdictFor(z, f.jobs[k])
    <3> f.jobs[k].requestId = e.jobs[k].requestId
      BY <1>2
    <3>1. CASE k = j
      <4>1. KeptJob(v, e.jobs[k], w, f.jobs[k], t) /\ (w # v => f.jobs[k].requestId \in known)
        BY <1>2, <3>1 DEF JobGoesOn
      <4> HIDE DEF v, w
      <4>2. /\ KeptJob(v, e.jobs[k], w, f.jobs[k], t)
            /\ AnsweredJob(known, v, e.jobs[k], w, f.jobs[k])
        BY <4>1 DEF AnsweredJob
      <4> QED
        BY <4>2 DEF v, w
    <3>2. CASE k # j
      <4>1. v = w /\ f.jobs[k] = e.jobs[k]
        BY <1>2, <1>4, <3>2
      <4> HIDE DEF v, w
      <4>2. /\ KeptJob(v, e.jobs[k], w, f.jobs[k], t)
            /\ AnsweredJob(known, v, e.jobs[k], w, f.jobs[k])
        BY <4>1 DEF KeptJob, AnsweredJob
      <4> QED
        BY <4>2 DEF v, w
    <3> QED
      BY <3>1, <3>2
  <2>2. DOMAIN s.requests \subseteq DOMAIN z.requests
    BY DEF OthersAlike
  <2> QED
    BY <1>1, <1>2, <2>1, <2>2 DEF Onward
<1> QED
  BY <1>2, <1>3, <1>4, <1>5, <1>6 DEF LevelOK, Locked

(* A step that changes no job and no request of the escrow. *)
SameBooks(e, f) ==
  /\ f.jobs = e.jobs /\ f.paidTo = e.paidTo
  /\ f.escrowBalance = e.escrowBalance
  /\ f.requestToJob = e.requestToJob
  /\ f.nextVerificationNonce = e.nextVerificationNonce

(* Then every job goes on as it was. *)
LEMMA NoJobMoves ==
  ASSUME NEW s, NEW e, NEW paid, NEW pays, NEW t, LevelOK(s, e, paid, pays, t),
         NEW z, NEW f, NEW paying, NEW paysNow, NEW known, NEW x,
         OthersAlike(s, z, paid, paying, x), x \notin OwnIds(s),
         SameBooks(e, f), Locked(f, paysNow)
  PROVE  LevelOK(z, f, paying, paysNow, t) /\ Onward(known, s, e, z, f, t)
<1> DEFINE N == Len(e.jobs)
<1>1. /\ N \in Nat /\ e.jobs \in Seq(Job)
      /\ BooksOK(s, e) /\ \A k \in 1 .. N : JobOKIn(s, e, paid, t, k)
  BY LenProperties DEF LevelOK, BooksOK, IsEscrowStorage
<1>2. BooksOK(z, f)
  BY <1>1 DEF BooksOK, IsEscrowStorage, SameBooks, Locked, OthersAlike
<1>3. ASSUME NEW k \in 1 .. N
      PROVE  /\ JobOKIn(z, f, paying, t, k)
             /\ VerdictFor(z, f.jobs[k]) = VerdictFor(s, e.jobs[k])
  <2> DEFINE q == e.jobs[k].requestId
  <2>1. JobOKIn(s, e, paid, t, k)
    BY <1>1
  <2>2. f.jobs[k] = e.jobs[k] /\ f.paidTo[k] = e.paidTo[k] /\ f.requestToJob = e.requestToJob
    BY DEF SameBooks
  <2>3. CASE q = NoRequest
    BY <2>1, <2>2, <2>3 DEF JobOKIn, JobOK, VerdictFor
  <2>4. CASE q # NoRequest
    <3>1. q \in OwnIds(s) /\ q # x
      BY <2>1, <2>4 DEF JobOKIn
    <3>2. /\ q \in OwnIds(z)
          /\ z.requests[q].status = s.requests[q].status
          /\ z.requests[q].decision = s.requests[q].decision
          /\ q \in paid <=> q \in paying
      BY <3>1 DEF OthersAlike
    <3>3. JobOK(e.jobs[k], s.requests[q], q \in paid, t)
      BY <2>1 DEF JobOKIn
    <3>4. JobOK(e.jobs[k], z.requests[q], q \in paying, t)
      BY <3>2, <3>3, SameJobOK
    <3> QED
      BY <2>1, <2>2, <2>4, <3>2, <3>4 DEF JobOKIn, VerdictFor
  <2> QED
    BY <2>3, <2>4
<1>4. f.jobs = e.jobs
  BY DEF SameBooks
<1>5. ASSUME NEW k \in 1 .. N
      PROVE  /\ KeptJob(VerdictFor(s, e.jobs[k]), e.jobs[k],
                        VerdictFor(z, f.jobs[k]), f.jobs[k], t)
             /\ AnsweredJob(known, VerdictFor(s, e.jobs[k]), e.jobs[k],
                            VerdictFor(z, f.jobs[k]), f.jobs[k])
  <2>1. \A v, job : KeptJob(v, job, v, job, t) /\ AnsweredJob(known, v, job, v, job)
    BY DEF KeptJob, AnsweredJob
  <2> QED
    BY <1>3, <1>4, <2>1
<1>6. Onward(known, s, e, z, f, t)
  <2>1. DOMAIN s.requests \subseteq DOMAIN z.requests
    BY DEF OthersAlike
  <2>2. N + 1 .. N = {} /\ N <= N
    BY <1>1
  <2> QED
    BY <1>4, <1>5, <2>1, <2>2 DEF Onward
<1> QED
  BY <1>2, <1>3, <1>4, <1>6 DEF LevelOK, Locked

(* createJob *)
Posts(e, f, job) ==
  /\ f.jobs = Append(e.jobs, job)
  /\ f.paidTo = Append(e.paidTo, <<>>)
  /\ f.escrowBalance = e.escrowBalance + job.bounty
  /\ f.requestToJob = e.requestToJob
  /\ f.nextVerificationNonce = e.nextVerificationNonce
  /\ f.transferLocked = e.transferLocked

(* A job posted: the books owe its bounty too. *)
LEMMA JobPosted ==
  ASSUME NEW s, NEW e, NEW paid, NEW pays, NEW t, LevelOK(s, e, paid, pays, t),
         NEW f, NEW known, NoRequest \notin known,
         NEW job \in Job, job.status = "Created", job.requestId = NoRequest,
         job.deadline > t, Posts(e, f, job)
  PROVE  LevelOK(s, f, paid, pays, t) /\ Onward(known, s, e, s, f, t)
<1> DEFINE N == Len(e.jobs)
<1>1. /\ N \in Nat /\ e.jobs \in Seq(Job) /\ Len(e.paidTo) = N
      /\ e.paidTo \in Seq(Seq(Clients \cup Workers))
      /\ BooksOK(s, e) /\ \A k \in 1 .. N : JobOKIn(s, e, paid, t, k)
  BY LenProperties DEF LevelOK, BooksOK, IsEscrowStorage
<1>2. /\ f.jobs \in Seq(Job) /\ Len(f.jobs) = N + 1
      /\ f.jobs[N + 1] = job /\ \A k \in 1 .. N : f.jobs[k] = e.jobs[k]
  BY <1>1, AppendProperties DEF Posts
<1>3. /\ f.paidTo \in Seq(Seq(Clients \cup Workers)) /\ Len(f.paidTo) = N + 1
      /\ f.paidTo[N + 1] = <<>> /\ \A k \in 1 .. N : f.paidTo[k] = e.paidTo[k]
  <2>1. <<>> \in Seq(Clients \cup Workers)
    BY EmptySeq
  <2> QED
    BY <1>1, <2>1, AppendProperties DEF Posts
<1>4. BooksOK(s, f)
  <2>1. f.escrowBalance = Owed(f.jobs) /\ f.escrowBalance \in Nat
    <3>1. Owed(e.jobs) \in Nat /\ Owed(f.jobs) = Owed(e.jobs) + Due(job)
      BY <1>1, NewJobOwed DEF Posts
    <3>2. Due(job) = job.bounty /\ job.bounty \in Nat
      BY EscrowConstants DEF Due, IsHeld, Job
    <3> QED
      BY <1>1, <3>1, <3>2 DEF Posts, BooksOK
  <2>2. \A id \in OwnIds(s) : /\ f.requestToJob[id] \in 1 .. N
                              /\ f.jobs[f.requestToJob[id]].requestId = id
    BY <1>1, <1>2 DEF Posts, BooksOK, IsEscrowStorage
  <2>3. IsEscrowStorage(f)
    BY <1>1, <1>2, <1>3, <2>1, <2>2 DEF BooksOK, IsEscrowStorage, Posts
  <2> QED
    BY <1>1, <1>3, <2>1, <2>2, <2>3 DEF BooksOK, Posts
<1>5. ASSUME NEW k \in 1 .. N PROVE JobOKIn(s, f, paid, t, k)
  BY <1>1, <1>2, <1>3 DEF JobOKIn, Posts
<1>6. JobOKIn(s, f, paid, t, N + 1)
  BY <1>2, <1>3 DEF JobOKIn, JobOK, PaidFor
<1>7. Onward(known, s, e, s, f, t)
  <2>1. \A v, any : KeptJob(v, any, v, any, t) /\ AnsweredJob(known, v, any, v, any)
    BY DEF KeptJob, AnsweredJob
  <2>2. PostedJob(known, VerdictFor(s, job), job, t)
    BY DEF PostedJob, VerdictFor, CustodyOf
  <2>3. N <= N + 1 /\ N + 1 .. N + 1 = {N + 1}
    BY <1>1
  <2> QED
    BY <1>2, <2>1, <2>2, <2>3 DEF Onward
<1>8. f.transferLocked <=> pays # {}
  BY DEF Posts, LevelOK
<1>9. \A k \in 1 .. Len(f.jobs) : JobOKIn(s, f, paid, t, k)
  <2>1. 1 .. Len(f.jobs) = 1 .. N \cup {N + 1}
    BY <1>1, <1>2
  <2> QED
    BY <1>5, <1>6, <2>1
<1> QED
  BY <1>4, <1>7, <1>8, <1>9 DEF LevelOK

(* requestVerification *)
Asks(s, z, e, f, j, id) ==
  /\ id \in RequestIds /\ id \notin DOMAIN s.requests
  /\ id.requester = Escrow /\ id.callback = Escrow
  /\ id.nonce = e.nextVerificationNonce /\ id.expiry <= e.jobs[j].deadline
  /\ DOMAIN z.requests = DOMAIN s.requests \cup {id}
  /\ z.requests[id] = FreshRequest
  /\ \A q \in DOMAIN s.requests : z.requests[q] = s.requests[q]
  /\ z.latestNonce[Escrow] = id.nonce
  /\ e.jobs[j].status = "EvidenceSubmitted"
  /\ e.nextVerificationNonce <= MaxNonce
  /\ f.nextVerificationNonce = e.nextVerificationNonce + 1
  /\ f.jobs = [e.jobs EXCEPT ![j].requestId = id,
                             ![j].status = "VerificationPending"]
  /\ f.requestToJob = [q \in DOMAIN e.requestToJob \cup {id} |->
                         IF q = id THEN j ELSE e.requestToJob[q]]
  /\ f.paidTo = e.paidTo
  /\ f.escrowBalance = e.escrowBalance
  /\ f.transferLocked = e.transferLocked

(* A job asks for its verdict: both contracts store the request. *)
LEMMA VerificationAsked ==
  ASSUME NEW s, NEW e, NEW paid, NEW pays, NEW t, LevelOK(s, e, paid, pays, t),
         NEW z, NEW f, NEW known \in SUBSET DOMAIN s.requests,
         NEW j \in 1 .. Len(e.jobs), NEW id, Asks(s, z, e, f, j, id)
  PROVE  LevelOK(z, f, paid, pays, t) /\ Onward(known, s, e, z, f, t)
<1> DEFINE N == Len(e.jobs)
           old == e.jobs[j]
           job == [old EXCEPT !.requestId = id, !.status = "VerificationPending"]
<1>1. /\ N \in Nat /\ e.jobs \in Seq(Job) /\ e.jobs \in [1 .. N -> Job]
      /\ BooksOK(s, e) /\ \A k \in 1 .. N : JobOKIn(s, e, paid, t, k)
  BY LenProperties DEF LevelOK, BooksOK, IsEscrowStorage
<1>2. /\ old \in Job /\ job \in Job /\ old.requestId = NoRequest
      /\ job.status = "VerificationPending" /\ job.requestId = id
      /\ job.bounty = old.bounty /\ job.deadline = old.deadline
      /\ IsHeld(old) /\ IsHeld(job) /\ old.status = "EvidenceSubmitted"
  <2>1. old \in Job /\ JobOKIn(s, e, paid, t, j)
    BY <1>1
  <2>2. job \in Job
    BY <2>1 DEF Job, Asks, JobStatus, Open
  <2> QED
    BY <2>1, <2>2 DEF Job, Asks, JobOKIn, JobOK, IsHeld
<1>3. /\ f.jobs \in Seq(Job) /\ Len(f.jobs) = N /\ f.jobs[j] = job
      /\ \A k \in 1 .. N : k # j => f.jobs[k] = e.jobs[k]
  <2>1. f.jobs = [e.jobs EXCEPT ![j] = job]
    BY <1>1 DEF Asks
  <2> HIDE DEF job
  <2> QED
    BY <1>1, <1>2, <2>1, ExceptSeq
<1> HIDE DEF job
<1>4. /\ OwnIds(z) = OwnIds(s) \cup {id} /\ id \notin OwnIds(s)
      /\ DOMAIN f.requestToJob = OwnIds(z)
      /\ f.requestToJob[id] = j
      /\ \A q \in OwnIds(s) : /\ f.requestToJob[q] = e.requestToJob[q]
                              /\ e.requestToJob[q] \in 1 .. N
                              /\ e.requestToJob[q] # j
  <2>1. DOMAIN e.requestToJob = OwnIds(s)
    BY <1>1 DEF BooksOK
  <2>2. OwnIds(z) = OwnIds(s) \cup {id} /\ id \notin OwnIds(s)
    BY DEF Asks, OwnIds
  <2>3. \A q \in OwnIds(s) : /\ e.requestToJob[q] \in 1 .. N
                             /\ e.jobs[e.requestToJob[q]].requestId = q
    BY <1>1 DEF BooksOK, IsEscrowStorage
  <2>4. NoRequest \notin OwnIds(s)
    BY <1>1, <2>1, EscrowConstants DEF BooksOK, IsEscrowStorage
  <2>5. \A q \in OwnIds(s) : e.requestToJob[q] # j
    BY <1>2, <2>3, <2>4
  <2> QED
    BY <2>1, <2>2, <2>3, <2>5 DEF Asks
<1>5. BooksOK(z, f)
  <2>1. f.escrowBalance = Owed(f.jobs) /\ f.escrowBalance \in Nat
    <3>1. Owed(f.jobs) \in Nat /\ Owed(e.jobs) \in Nat
          /\ Owed(f.jobs) = Owed(e.jobs) - Due(old) + Due(job)
      BY <1>1, <1>3, OneJobOwed
    <3>2. Due(job) = Due(old) /\ Due(old) \in Nat
      BY <1>2, EscrowConstants DEF Due, Job
    <3> QED
      BY <1>1, <3>1, <3>2 DEF Asks, BooksOK
  <2>2. \A q \in OwnIds(z) : /\ f.requestToJob[q] \in 1 .. N
                             /\ f.jobs[f.requestToJob[q]].requestId = q
    <3>1. \A q \in OwnIds(s) : e.jobs[e.requestToJob[q]].requestId = q
      BY <1>1 DEF BooksOK
    <3> QED
      BY <1>2, <1>3, <1>4, <3>1
  <2>3. f.nextVerificationNonce \in 1 .. MaxNonce + 1
        /\ f.nextVerificationNonce = z.latestNonce[Escrow] + 1
    BY <1>1, RouterConstants DEF Asks, BooksOK, IsEscrowStorage
  <2>4. OwnIds(z) \subseteq RequestIds
    BY <1>1, <1>4 DEF BooksOK, IsEscrowStorage, Asks
  <2>5. IsEscrowStorage(f)
    BY <1>1, <1>3, <1>4, <2>1, <2>2, <2>3, <2>4 DEF BooksOK, IsEscrowStorage, Asks
  <2>6. f.paidTo \in Seq(Seq(Clients \cup Workers))
    BY <1>1 DEF BooksOK, Asks
  <2> QED
    BY <1>4, <2>1, <2>2, <2>3, <2>5, <2>6 DEF BooksOK
<1>6. ASSUME NEW k \in 1 .. N, k # j
      PROVE  /\ JobOKIn(z, f, paid, t, k)
             /\ VerdictFor(z, f.jobs[k]) = VerdictFor(s, e.jobs[k])
  <2> DEFINE q == e.jobs[k].requestId
  <2>1. JobOKIn(s, e, paid, t, k)
    BY <1>1
  <2>2. f.jobs[k] = e.jobs[k] /\ f.paidTo[k] = e.paidTo[k]
    BY <1>3, <1>6 DEF Asks
  <2>3. CASE q = NoRequest
    BY <2>1, <2>2, <2>3 DEF JobOKIn, JobOK, VerdictFor
  <2>4. CASE q # NoRequest
    <3>1. /\ q \in OwnIds(s) /\ q \in OwnIds(z)
          /\ z.requests[q] = s.requests[q]
          /\ f.requestToJob[q] = k
      BY <1>4, <2>1, <2>4 DEF JobOKIn, OwnIds, Asks
    <3> QED
      BY <2>1, <2>2, <2>4, <3>1 DEF JobOKIn, VerdictFor
  <2> QED
    BY <2>3, <2>4
<1>7. JobOKIn(z, f, paid, t, j)
  <2>1. f.paidTo[j] = PaidFor(job)
    <3>1. e.paidTo[j] = PaidFor(old)
      BY <1>1 DEF JobOKIn
    <3> QED
      BY <1>2, <3>1 DEF PaidFor, Asks
  <2>2. JobOK(job, FreshRequest, id \in paid, t)
    <3>1. FreshRequest.status = "Dispatched" /\ FreshRequest.decision = "None"
      BY DEF FreshRequest
    <3>2. id.callback = Escrow /\ id.expiry <= old.deadline /\ id # NoRequest
      BY EscrowConstants DEF Asks
    <3> HIDE DEF old
    <3> QED
      BY <1>2, <3>1, <3>2 DEF JobOK, FollowsRequest
  <2>3. z.requests[id] = FreshRequest /\ id \in OwnIds(z)
    BY <1>4 DEF Asks
  <2> QED
    BY <1>2, <1>3, <1>4, <2>1, <2>2, <2>3 DEF JobOKIn
<1>8. Onward(known, s, e, z, f, t)
  <2>1. \A v, any : KeptJob(v, any, v, any, t) /\ AnsweredJob(known, v, any, v, any)
    BY DEF KeptJob, AnsweredJob
  <2>2. VerdictFor(s, old) = "None" /\ VerdictFor(z, job) = "None"
    BY <1>2 DEF VerdictFor, Asks, FreshRequest
  <2>3. KeptJob("None", old, "None", job, t) /\ AnsweredJob(known, "None", old, "None", job)
    BY <1>2 DEF KeptJob, AnsweredJob, CustodyOf, Asks
  <2>4. ASSUME NEW k \in 1 .. N
        PROVE  /\ KeptJob(VerdictFor(s, e.jobs[k]), e.jobs[k],
                          VerdictFor(z, f.jobs[k]), f.jobs[k], t)
               /\ AnsweredJob(known, VerdictFor(s, e.jobs[k]), e.jobs[k],
                              VerdictFor(z, f.jobs[k]), f.jobs[k])
    <3>1. CASE k = j
      BY <1>3, <2>2, <2>3, <3>1
    <3>2. CASE k # j
      BY <1>3, <1>6, <2>1, <3>2
    <3> QED
      BY <3>1, <3>2
  <2>5. DOMAIN s.requests \subseteq DOMAIN z.requests /\ N + 1 .. N = {} /\ N <= N
    BY <1>1 DEF Asks
  <2> QED
    BY <1>3, <2>4, <2>5 DEF Onward
<1>9. f.transferLocked <=> pays # {}
  BY DEF Asks, LevelOK
<1> QED
  BY <1>3, <1>5, <1>6, <1>7, <1>8, <1>9 DEF LevelOK
-----------------------------------------------------------------------------
(* The requests whose payment is among the first n calls in progress, and    *)
(* the payments among them, as places.                                      *)
PaidAt(fs, es, n) ==
  {fs[i].request : i \in {k \in 1 .. n : fs[k].kind = "callback" /\ es[k].paying}}

PayingAt(es, n) == {i \in 1 .. n : es[i].paying}

CallsEscrow(f) == f.kind = "callback" /\ f.request.callback = Escrow

(* Both storages at one level of the stack, c and ce being the committed ones*)
Level(c, ce, s, e, paid, pays, t) ==
  LevelOK(s, e, paid, pays, t) /\ Onward(DOMAIN c.requests, c, ce, s, e, t)

FramesOK(f, g) ==
  /\ g.paying \in BOOLEAN
  /\ g.paying => f.kind = "refund" \/ CallsEscrow(f)
  /\ f.kind = "refund" => g.paying

StacksOK(fs, es, c, ce, t) ==
  /\ IsStack(fs) /\ IsStack(es) /\ Len(es) = Len(fs)
  /\ \A k \in 1 .. Len(fs) :
       Level(c, ce, fs[k].saved, es[k].saved, PaidAt(fs, es, k - 1), PayingAt(es, k - 1), t)
  /\ \A k \in 1 .. Len(fs) : FramesOK(fs[k], es[k])
  /\ \A i, k \in 1 .. Len(fs) : es[i].paying /\ es[k].paying => i = k

(* What a transaction commits is a storage of the form its revert restores.  *)
IsSnapshot(s) ==
  s = [requests |-> s.requests, deliveries |-> s.deliveries,
       latestNonce |-> s.latestNonce, accruedFees |-> s.accruedFees,
       balance |-> s.balance]

IsEscrowSnapshot(e) ==
  e = [jobs |-> e.jobs, nextVerificationNonce |-> e.nextVerificationNonce,
       requestToJob |-> e.requestToJob, transferLocked |-> e.transferLocked,
       escrowBalance |-> e.escrowBalance, paidTo |-> e.paidTo]

(* The inductive invariant. *)
EscrowInv ==
  /\ IInv
  /\ StacksOK(frames, escrowFrames, committed, escrowCommitted, now)
  /\ Level(committed, escrowCommitted, Storage, EscrowStorage,
           PaidAt(frames, escrowFrames, Len(frames)),
           PayingAt(escrowFrames, Len(frames)), now)
  /\ LevelOK(committed, escrowCommitted, {}, {}, now)
  /\ IsSnapshot(committed) /\ IsEscrowSnapshot(escrowCommitted)
  /\ AtRest => committed = Storage /\ escrowCommitted = EscrowStorage

SameFrames(fs, gs, es, hs, n) ==
  \A i \in 1 .. n : gs[i] = fs[i] /\ hs[i] = es[i]

(* Equal prefixes of the stacks have the same payments in progress. *)
LEMMA SamePrefix ==
  ASSUME NEW fs, NEW gs, NEW es, NEW hs, NEW n, SameFrames(fs, gs, es, hs, n)
  PROVE  PaidAt(gs, hs, n) = PaidAt(fs, es, n) /\ PayingAt(hs, n) = PayingAt(es, n)
BY DEF PaidAt, PayingAt, SameFrames

(* What one more call adds to the payments in progress. *)
LEMMA NextPrefix ==
  ASSUME NEW fs, NEW es, NEW n \in Nat
  PROVE  /\ PaidAt(fs, es, n + 1) =
              PaidAt(fs, es, n) \cup
                (IF fs[n + 1].kind = "callback" /\ es[n + 1].paying
                 THEN {fs[n + 1].request} ELSE {})
         /\ PayingAt(es, n + 1) =
              PayingAt(es, n) \cup (IF es[n + 1].paying THEN {n + 1} ELSE {})
<1> 1 .. n + 1 = 1 .. n \cup {n + 1}
  OBVIOUS
<1> QED
  BY DEF PaidAt, PayingAt

(* The same, seen from the innermost call. *)
LEMMA LastPrefix ==
  ASSUME NEW fs, NEW es, NEW n \in Nat \ {0}
  PROVE  /\ PaidAt(fs, es, n) =
              PaidAt(fs, es, n - 1) \cup
                (IF fs[n].kind = "callback" /\ es[n].paying
                 THEN {fs[n].request} ELSE {})
         /\ PayingAt(es, n) =
              PayingAt(es, n - 1) \cup (IF es[n].paying THEN {n} ELSE {})
<1> 1 .. n = 1 .. n - 1 \cup {n}
  OBVIOUS
<1> QED
  BY DEF PaidAt, PayingAt

(* No call, no payment in progress. *)
LEMMA NoPrefix ==
  ASSUME NEW fs, NEW es PROVE PaidAt(fs, es, 0) = {} /\ PayingAt(es, 0) = {}
BY DEF PaidAt, PayingAt

(* No payment in progress, no request in payment. *)
LEMMA IdlePrefix ==
  ASSUME NEW fs, NEW es, NEW n, PayingAt(es, n) = {} PROVE PaidAt(fs, es, n) = {}
BY DEF PaidAt, PayingAt

(* A request in payment has its callback in progress. *)
LEMMA PaidIsCalled ==
  ASSUME NEW fs, NEW es, NEW n PROVE PaidAt(fs, es, n) \subseteq Called(fs, n)
BY DEF PaidAt, Called

(* A call starts. *)
LEMMA PushStacks ==
  ASSUME NEW fs, NEW es, NEW c, NEW ce, NEW t, StacksOK(fs, es, c, ce, t),
         NEW f, NEW g, FramesOK(f, g),
         Level(c, ce, f.saved, g.saved, PaidAt(fs, es, Len(fs)), PayingAt(es, Len(fs)), t),
         g.paying => f.kind = "refund" /\ PayingAt(es, Len(fs)) = {}
  PROVE  LET gs == Append(fs, f)
             hs == Append(es, g)
         IN /\ StacksOK(gs, hs, c, ce, t)
            /\ PaidAt(gs, hs, Len(gs)) = PaidAt(fs, es, Len(fs))
            /\ PayingAt(hs, Len(gs)) =
                 PayingAt(es, Len(fs)) \cup (IF g.paying THEN {Len(gs)} ELSE {})
<1> DEFINE gs == Append(fs, f)
           hs == Append(es, g)
           n == Len(fs)
<1>1. /\ IsStack(gs) /\ n \in Nat /\ Len(gs) = n + 1
      /\ \A i \in 1 .. n : gs[i] = fs[i]
      /\ gs[n + 1] = f
  BY PushFacts DEF StacksOK
<1>2. /\ IsStack(hs) /\ Len(hs) = n + 1
      /\ \A i \in 1 .. n : hs[i] = es[i]
      /\ hs[n + 1] = g
  BY PushFacts DEF StacksOK
<1> HIDE DEF gs, hs
<1>3. ASSUME NEW k \in 0 .. n
      PROVE  PaidAt(gs, hs, k) = PaidAt(fs, es, k) /\ PayingAt(hs, k) = PayingAt(es, k)
  <2>1. SameFrames(fs, gs, es, hs, k)
    BY <1>1, <1>2 DEF SameFrames
  <2> QED
    BY <2>1, SamePrefix
<1>4. ASSUME NEW k \in 1 .. n + 1
      PROVE  Level(c, ce, gs[k].saved, hs[k].saved, PaidAt(gs, hs, k - 1), PayingAt(hs, k - 1), t)
  <2>1. k - 1 \in 0 .. n
    BY <1>1
  <2>2. PaidAt(gs, hs, k - 1) = PaidAt(fs, es, k - 1) /\ PayingAt(hs, k - 1) = PayingAt(es, k - 1)
    BY <1>3, <2>1
  <2>3. CASE k = n + 1
    <3>1. k - 1 = n /\ gs[k] = f /\ hs[k] = g
      BY <1>1, <1>2, <2>3
    <3> QED
      BY <2>2, <3>1 DEF Level, LevelOK
  <2>4. CASE k \in 1 .. n
    <3>1. Level(c, ce, fs[k].saved, es[k].saved, PaidAt(fs, es, k - 1), PayingAt(es, k - 1), t)
      BY <2>4 DEF StacksOK
    <3>2. gs[k] = fs[k] /\ hs[k] = es[k]
      BY <1>1, <1>2, <2>4
    <3> QED
      BY <2>2, <3>1, <3>2 DEF Level, LevelOK
  <2> QED
    BY <1>1, <2>3, <2>4
<1>5. \A k \in 1 .. n + 1 : FramesOK(gs[k], hs[k])
  <2>1. 1 .. n + 1 = 1 .. n \cup {n + 1}
    BY <1>1
  <2> QED
    BY <1>1, <1>2, <2>1 DEF StacksOK
<1>6. ASSUME NEW i \in 1 .. n + 1, NEW k \in 1 .. n + 1, hs[i].paying, hs[k].paying
      PROVE  i = k
  <2>1. CASE i \in 1 .. n /\ k \in 1 .. n
    BY <1>2, <1>6, <2>1 DEF StacksOK
  <2>2. CASE i = n + 1 /\ k \in 1 .. n
    BY <1>2, <1>6, <2>2 DEF PayingAt
  <2>3. CASE i \in 1 .. n /\ k = n + 1
    BY <1>2, <1>6, <2>3 DEF PayingAt
  <2> QED
    BY <1>1, <2>1, <2>2, <2>3
<1>7. StacksOK(gs, hs, c, ce, t)
  BY <1>1, <1>2, <1>4, <1>5, <1>6 DEF StacksOK
<1>8. /\ PaidAt(gs, hs, n + 1) = PaidAt(fs, es, n)
      /\ PayingAt(hs, n + 1) = PayingAt(es, n) \cup (IF g.paying THEN {n + 1} ELSE {})
  <2>1. n \in 0 .. n
    BY <1>1
  <2>2. PaidAt(gs, hs, n) = PaidAt(fs, es, n) /\ PayingAt(hs, n) = PayingAt(es, n)
    BY <1>3, <2>1
  <2>3. /\ PaidAt(gs, hs, n + 1) =
              PaidAt(gs, hs, n) \cup
                (IF gs[n + 1].kind = "callback" /\ hs[n + 1].paying
                 THEN {gs[n + 1].request} ELSE {})
        /\ PayingAt(hs, n + 1) =
              PayingAt(hs, n) \cup (IF hs[n + 1].paying THEN {n + 1} ELSE {})
    <3>1. n \in Nat
      BY <1>1
    <3>2. \A m \in Nat :
            /\ PaidAt(gs, hs, m + 1) =
                 PaidAt(gs, hs, m) \cup
                   (IF gs[m + 1].kind = "callback" /\ hs[m + 1].paying
                    THEN {gs[m + 1].request} ELSE {})
            /\ PayingAt(hs, m + 1) =
                 PayingAt(hs, m) \cup (IF hs[m + 1].paying THEN {m + 1} ELSE {})
      BY NextPrefix, Zenon
    <3> HIDE DEF n
    <3> QED
      BY <3>1, <3>2, Zenon
  <2>4. gs[n + 1] = f /\ hs[n + 1] = g /\ ~(f.kind = "callback" /\ g.paying)
    BY <1>1, <1>2
  <2> QED
    BY <2>2, <2>3, <2>4
<1> QED
  BY <1>1, <1>7, <1>8 DEF gs, hs

(* A call ends. *)
LEMMA PopStacks ==
  ASSUME NEW fs, NEW es, NEW c, NEW ce, NEW t, StacksOK(fs, es, c, ce, t), fs # <<>>
  PROVE  LET n == Len(fs)
             gs == SubSeq(fs, 1, n - 1)
             hs == SubSeq(es, 1, Len(es) - 1)
         IN /\ StacksOK(gs, hs, c, ce, t)
            /\ Len(gs) = n - 1 /\ Len(es) = n
            /\ PaidAt(gs, hs, Len(gs)) = PaidAt(fs, es, n - 1)
            /\ PayingAt(hs, Len(gs)) = PayingAt(es, n - 1)
            /\ Level(c, ce, fs[n].saved, es[n].saved, PaidAt(fs, es, n - 1),
                     PayingAt(es, n - 1), t)
            /\ FramesOK(fs[n], es[n])
            /\ PaidAt(fs, es, n) =
                 PaidAt(fs, es, n - 1) \cup
                   (IF fs[n].kind = "callback" /\ es[n].paying THEN {fs[n].request} ELSE {})
            /\ PayingAt(es, n) = PayingAt(es, n - 1) \cup (IF es[n].paying THEN {n} ELSE {})
            /\ es[n].paying => PayingAt(es, n - 1) = {}
<1> DEFINE n == Len(fs)
           gs == SubSeq(fs, 1, n - 1)
           hs == SubSeq(es, 1, Len(es) - 1)
<1>1. /\ IsStack(gs) /\ n \in Nat /\ n >= 1 /\ Len(gs) = n - 1
      /\ \A i \in 1 .. n - 1 : gs[i] = fs[i]
  BY PopFacts DEF StacksOK
<1>2. es # <<>> /\ Len(es) = n /\ IsStack(es)
  BY <1>1, EmptySeq DEF StacksOK
<1>3. /\ IsStack(hs) /\ Len(hs) = n - 1
      /\ \A i \in 1 .. n - 1 : hs[i] = es[i]
  BY <1>2, PopFacts
<1> HIDE DEF gs, hs
<1>4. ASSUME NEW k \in 0 .. n - 1
      PROVE  PaidAt(gs, hs, k) = PaidAt(fs, es, k) /\ PayingAt(hs, k) = PayingAt(es, k)
  <2>1. SameFrames(fs, gs, es, hs, k)
    BY <1>1, <1>3 DEF SameFrames
  <2> QED
    BY <2>1, SamePrefix
<1>5. ASSUME NEW k \in 1 .. n - 1
      PROVE  Level(c, ce, gs[k].saved, hs[k].saved, PaidAt(gs, hs, k - 1), PayingAt(hs, k - 1), t)
  <2>1. k - 1 \in 0 .. n - 1 /\ k \in 1 .. n
    BY <1>1
  <2>2. PaidAt(gs, hs, k - 1) = PaidAt(fs, es, k - 1) /\ PayingAt(hs, k - 1) = PayingAt(es, k - 1)
    BY <1>4, <2>1
  <2>3. Level(c, ce, fs[k].saved, es[k].saved, PaidAt(fs, es, k - 1), PayingAt(es, k - 1), t)
    BY <2>1 DEF StacksOK
  <2>4. gs[k] = fs[k] /\ hs[k] = es[k]
    BY <1>1, <1>3
  <2> QED
    BY <2>2, <2>3, <2>4 DEF Level, LevelOK
<1>6. StacksOK(gs, hs, c, ce, t)
  <2>1. \A k \in 1 .. n - 1 : FramesOK(gs[k], hs[k])
    BY <1>1, <1>3 DEF StacksOK
  <2>2. ASSUME NEW i \in 1 .. n - 1, NEW k \in 1 .. n - 1, hs[i].paying, hs[k].paying
        PROVE  i = k
    <3>1. /\ i \in 1 .. n /\ k \in 1 .. n
          /\ hs[i] = es[i] /\ hs[k] = es[k]
      BY <1>1, <1>3
    <3>2. es[i].paying /\ es[k].paying
      BY <2>2, <3>1
    <3> QED
      BY <3>1, <3>2 DEF StacksOK
  <2> QED
    BY <1>1, <1>3, <1>5, <2>1, <2>2 DEF StacksOK
<1>7. /\ PaidAt(gs, hs, Len(gs)) = PaidAt(fs, es, n - 1)
      /\ PayingAt(hs, Len(gs)) = PayingAt(es, n - 1)
  <2>1. n - 1 \in 0 .. n - 1
    BY <1>1
  <2> QED
    BY <1>1, <1>4, <2>1
<1>8. n \in 1 .. n /\ n - 1 \in Nat /\ (n - 1) + 1 = n
  BY <1>1
<1>9. /\ PaidAt(fs, es, n) =
            PaidAt(fs, es, n - 1) \cup
              (IF fs[n].kind = "callback" /\ es[n].paying THEN {fs[n].request} ELSE {})
      /\ PayingAt(es, n) = PayingAt(es, n - 1) \cup (IF es[n].paying THEN {n} ELSE {})
  <2>1. n \in Nat \ {0}
    BY <1>8
  <2> HIDE DEF n
  <2> QED
    BY <2>1, LastPrefix
<1>10. es[n].paying => PayingAt(es, n - 1) = {}
  <2> SUFFICES ASSUME es[n].paying, NEW i \in 1 .. n - 1, es[i].paying PROVE FALSE
    BY DEF PayingAt
  <2>1. i \in 1 .. n /\ i # n
    BY <1>1
  <2> QED
    BY <1>8, <2>1 DEF StacksOK
<1>11. /\ Level(c, ce, fs[n].saved, es[n].saved, PaidAt(fs, es, n - 1), PayingAt(es, n - 1), t)
       /\ FramesOK(fs[n], es[n])
  BY <1>8 DEF StacksOK
<1> QED
  BY <1>1, <1>2, <1>6, <1>7, <1>9, <1>10, <1>11 DEF gs, hs

(* The callback of the escrow starts to pay. *)
LEMMA PayStacks ==
  ASSUME NEW fs, NEW es, NEW c, NEW ce, NEW t, StacksOK(fs, es, c, ce, t), fs # <<>>,
         CallsEscrow(fs[Len(fs)]), PayingAt(es, Len(fs)) = {}
  PROVE  LET n == Len(fs)
             hs == [es EXCEPT ![Len(es)].paying = TRUE]
         IN /\ StacksOK(fs, hs, c, ce, t)
            /\ PaidAt(fs, hs, n) = {fs[n].request}
            /\ PayingAt(hs, n) = {n}
<1> DEFINE n == Len(fs)
           hs == [es EXCEPT ![Len(es)].paying = TRUE]
           S == {es[i] : i \in DOMAIN es}
           g == [es[n] EXCEPT !.paying = TRUE]
<1>1. n \in Nat /\ n >= 1 /\ Len(es) = n /\ es \in Seq(S) /\ DOMAIN es = 1 .. n
  <2>1. n \in Nat /\ n >= 1
    BY PopFacts DEF StacksOK
  <2>2. Len(es) = n /\ es \in Seq(S)
    BY DEF StacksOK, IsStack
  <2> QED
    BY <2>1, <2>2, LenProperties
<1>2. /\ IsStack(hs) /\ Len(hs) = n /\ hs[n] = g
      /\ \A i \in 1 .. n - 1 : hs[i] = es[i]
  <2>1. hs = [es EXCEPT ![n] = g]
    BY <1>1
  <2> HIDE DEF S, g, hs
  <2>2. es \in Seq(S \cup {g})
    BY <1>1, SeqMonotonic
  <2>3. hs \in Seq(S \cup {g})
    BY <1>1, <2>1, <2>2, ExceptSeq
  <2>4. IsStack(hs)
    BY <2>3, OwnElements DEF IsStack
  <2> QED
    BY <1>1, <2>1, <2>2, <2>4, ExceptSeq
<1>3. g.paying = TRUE /\ g.saved = es[n].saved
  <2>1. Level(c, ce, fs[n].saved, es[n].saved, PaidAt(fs, es, n - 1), PayingAt(es, n - 1), t)
        /\ FramesOK(fs[n], es[n])
    BY <1>1, PopStacks
  <2> QED
    BY <2>1
<1> HIDE DEF hs, g, S
<1>0. n \in Nat /\ n >= 1
  BY <1>1
<1>4. ASSUME NEW k \in 0 .. n - 1
      PROVE  PaidAt(fs, hs, k) = PaidAt(fs, es, k) /\ PayingAt(hs, k) = PayingAt(es, k)
  <2>1. SameFrames(fs, fs, es, hs, k)
    BY <1>1, <1>2 DEF SameFrames
  <2> QED
    BY <2>1, SamePrefix
<1>5. ASSUME NEW k \in 1 .. n
      PROVE  Level(c, ce, fs[k].saved, hs[k].saved, PaidAt(fs, hs, k - 1), PayingAt(hs, k - 1), t)
  <2>1. k - 1 \in 0 .. n - 1
    BY <1>1
  <2>2. PaidAt(fs, hs, k - 1) = PaidAt(fs, es, k - 1) /\ PayingAt(hs, k - 1) = PayingAt(es, k - 1)
    BY <1>4, <2>1
  <2>3. Level(c, ce, fs[k].saved, es[k].saved, PaidAt(fs, es, k - 1), PayingAt(es, k - 1), t)
    BY DEF StacksOK
  <2>4. hs[k].saved = es[k].saved
    <3>1. CASE k = n
      BY <1>2, <1>3, <3>1
    <3>2. CASE k # n
      <4>1. k \in 1 .. n - 1
        BY <1>0, <3>2
      <4> QED
        BY <1>2, <4>1
    <3> QED
      BY <3>1, <3>2
  <2> QED
    BY <2>2, <2>3, <2>4 DEF Level, LevelOK
<1>6. \A i \in 1 .. n : hs[i].paying <=> i = n
  <2> SUFFICES ASSUME NEW i \in 1 .. n PROVE hs[i].paying <=> i = n
    OBVIOUS
  <2>1. CASE i = n
    BY <1>2, <1>3, <2>1
  <2>2. CASE i # n
    <3>1. i \in 1 .. n - 1
      BY <1>0, <2>2
    <3>2. hs[i] = es[i] /\ ~es[i].paying
      BY <1>2, <3>1 DEF PayingAt
    <3> QED
      BY <2>2, <3>2
  <2> QED
    BY <2>1, <2>2
<1>7. \A k \in 1 .. n : FramesOK(fs[k], hs[k])
  <2> SUFFICES ASSUME NEW k \in 1 .. n PROVE FramesOK(fs[k], hs[k])
    OBVIOUS
  <2>1. CASE k = n
    BY <1>2, <1>3, <2>1 DEF FramesOK
  <2>2. CASE k # n
    <3>1. k \in 1 .. n - 1
      BY <1>0, <2>2
    <3> QED
      BY <1>2, <3>1 DEF StacksOK
  <2> QED
    BY <2>1, <2>2
<1>8. StacksOK(fs, hs, c, ce, t)
  BY <1>1, <1>2, <1>5, <1>6, <1>7 DEF StacksOK
<1>9. n \in 1 .. n
  BY <1>1
<1>10. PayingAt(hs, n) = {n}
  BY <1>6, <1>9 DEF PayingAt
<1>11. PaidAt(fs, hs, n) = {fs[n].request}
  <2>1. {k \in 1 .. n : fs[k].kind = "callback" /\ hs[k].paying} = {n}
    BY <1>6, <1>9 DEF CallsEscrow
  <2> QED
    BY <2>1 DEF PaidAt
<1> QED
  BY <1>8, <1>10, <1>11 DEF hs
-----------------------------------------------------------------------------
(* How job j of the books is replaced: paid or not. *)
Replaces(e, f, j, job) ==
  /\ f.jobs = [e.jobs EXCEPT ![j] = job]
  /\ f.requestToJob = e.requestToJob
  /\ f.nextVerificationNonce = e.nextVerificationNonce
  /\ job.requestId = e.jobs[j].requestId

Unpaid(e, f, j, job) ==
  /\ PaidFor(job) = PaidFor(e.jobs[j]) /\ Due(job) = Due(e.jobs[j])
  /\ f.paidTo = e.paidTo
  /\ f.escrowBalance = e.escrowBalance

PaidOut(e, f, j, job, recipient) ==
  /\ IsHeld(e.jobs[j]) /\ ~IsHeld(job) /\ PaidFor(job) = <<recipient>>
  /\ recipient \in Clients \cup Workers
  /\ f.paidTo = [e.paidTo EXCEPT ![j] = Append(e.paidTo[j], recipient)]
  /\ f.escrowBalance = e.escrowBalance - e.jobs[j].bounty

(* Either way, one job changes and the balance by what it was due. *)
LEMMA JobReplaced ==
  ASSUME NEW s, NEW e, NEW paid, NEW pays, NEW t, LevelOK(s, e, paid, pays, t),
         NEW f, NEW j \in 1 .. Len(e.jobs), NEW job \in Job,
         Replaces(e, f, j, job),
         Unpaid(e, f, j, job) \/ \E recipient : PaidOut(e, f, j, job, recipient)
  PROVE  OneJobChanges(e, f, j, job)
<1> DEFINE N == Len(e.jobs)
           Accounts == Seq(Clients \cup Workers)
<1>1. /\ e.jobs \in Seq(Job) /\ e.jobs[j] \in Job
      /\ e.paidTo \in Seq(Accounts) /\ Len(e.paidTo) = N
      /\ JobOKIn(s, e, paid, t, j)
  BY LenProperties DEF LevelOK, BooksOK, IsEscrowStorage
<1>2. /\ f.jobs \in Seq(Job) /\ Len(f.jobs) = N /\ f.jobs[j] = job
      /\ \A k \in 1 .. N : k # j => f.jobs[k] = e.jobs[k]
  <2>1. f.jobs = [e.jobs EXCEPT ![j] = job]
    BY DEF Replaces
  <2> QED
    BY <1>1, <2>1, ExceptSeq
<1>3. e.escrowBalance \in Nat
  BY DEF LevelOK, BooksOK, IsEscrowStorage
<1>4. /\ f.paidTo \in Seq(Accounts) /\ Len(f.paidTo) = N
      /\ f.paidTo[j] = PaidFor(job)
      /\ \A k \in 1 .. N : k # j => f.paidTo[k] = e.paidTo[k]
      /\ f.escrowBalance = e.escrowBalance - Due(e.jobs[j]) + Due(job)
  <2>1. CASE Unpaid(e, f, j, job)
    <3>1. Due(job) \in Nat
      BY EscrowConstants DEF Due, Job
    <3> QED
      BY <1>1, <1>3, <2>1, <3>1 DEF Unpaid, JobOKIn
  <2>2. CASE \E recipient : PaidOut(e, f, j, job, recipient)
    <3>0. PICK recipient : PaidOut(e, f, j, job, recipient)
      BY <2>2
    <3>1. e.paidTo[j] = <<>>
      BY <1>1, <3>0 DEF JobOKIn, PaidOut, PaidFor, IsHeld
    <3>2. Append(e.paidTo[j], recipient) = <<recipient>>
      BY <3>1
    <3>3. <<recipient>> \in Accounts
      BY <3>0 DEF PaidOut
    <3>4. f.paidTo = [e.paidTo EXCEPT ![j] = <<recipient>>]
      BY <3>0, <3>2 DEF PaidOut
    <3>5. /\ f.paidTo \in Seq(Accounts) /\ Len(f.paidTo) = N
          /\ f.paidTo[j] = <<recipient>>
          /\ \A k \in 1 .. N : k # j => f.paidTo[k] = e.paidTo[k]
      <4> HIDE DEF Accounts
      <4> QED
        BY <1>1, <3>3, <3>4, ExceptSeq
    <3>6. f.escrowBalance = e.escrowBalance - Due(e.jobs[j]) + Due(job)
      <4>1. Due(job) = 0 /\ Due(e.jobs[j]) = e.jobs[j].bounty /\ e.jobs[j].bounty \in Nat
        BY <1>1, <3>0, EscrowConstants DEF Due, PaidOut, Job
      <4> QED
        BY <1>3, <3>0, <4>1 DEF PaidOut
    <3> QED
      BY <3>0, <3>5, <3>6 DEF PaidOut
  <2> QED
    BY <2>1, <2>2
<1> QED
  BY <1>2, <1>4 DEF OneJobChanges, Replaces

(* Only the request id changes in the router. *)
OneRequestChanges(s, z, paid, paying, id) ==
  /\ id \in DOMAIN s.requests
  /\ DOMAIN z.requests = DOMAIN s.requests
  /\ \A q \in DOMAIN s.requests \ {id} : z.requests[q] = s.requests[q]
  /\ z.latestNonce[Escrow] = s.latestNonce[Escrow]
  /\ paying \ {id} = paid \ {id}

(* A step that changes one request, and no job. *)
LEMMA RequestMoves ==
  ASSUME NEW s, NEW e, NEW paid, NEW pays, NEW t, LevelOK(s, e, paid, pays, t),
         NEW z, NEW f, NEW paying, NEW paysNow, NEW known, NEW id,
         OneRequestChanges(s, z, paid, paying, id),
         SameBooks(e, f), Locked(f, paysNow),
         \A j \in 1 .. Len(e.jobs) :
            e.jobs[j].requestId = id =>
              JobGoesOn(known, s, z, paying, t, e.jobs[j], e.jobs[j])
  PROVE  LevelOK(z, f, paying, paysNow, t) /\ Onward(known, s, e, z, f, t)
<1>1. OthersAlike(s, z, paid, paying, id)
  BY DEF OthersAlike, OneRequestChanges, OwnIds
<1>2. CASE id \notin OwnIds(s)
  BY <1>1, <1>2, NoJobMoves
<1>3. CASE id \in OwnIds(s)
  <2> DEFINE j == e.requestToJob[id]
  <2>1. j \in 1 .. Len(e.jobs) /\ e.jobs[j].requestId = id
    BY <1>3 DEF LevelOK, BooksOK, IsEscrowStorage
  <2> HIDE DEF j
  <2>2. JobGoesOn(known, s, z, paying, t, e.jobs[j], e.jobs[j])
    BY <2>1
  <2>3. e.jobs[j] \in Job /\ e.jobs \in Seq(Job)
    BY <2>1, LenProperties DEF LevelOK, BooksOK, IsEscrowStorage
  <2>4. Replaces(e, f, j, e.jobs[j]) /\ Unpaid(e, f, j, e.jobs[j])
    <3>1. e.jobs = [e.jobs EXCEPT ![j] = e.jobs[j]]
      BY <2>1, <2>3, LenProperties
    <3> QED
      BY <3>1 DEF Replaces, Unpaid, SameBooks
  <2>5. OneJobChanges(e, f, j, e.jobs[j])
    BY <2>1, <2>3, <2>4, JobReplaced
  <2>6. OthersAlike(s, z, paid, paying, e.jobs[j].requestId)
    BY <1>1, <2>1
  <2> QED
    BY <2>1, <2>2, <2>3, <2>5, <2>6, OneJobMoves
<1> QED
  BY <1>2, <1>3

(* A job whose custody and verdict stay. *)
LEMMA JobStays ==
  ASSUME NEW known, NEW s, NEW z, NEW paying, NEW t, NEW job, NEW next,
         JobOK(next, z.requests[next.requestId], next.requestId \in paying, t),
         next.deadline = job.deadline,
         CustodyOf(next) = CustodyOf(job),
         VerdictFor(z, next) = VerdictFor(s, job)
  PROVE  JobGoesOn(known, s, z, paying, t, job, next)
BY DEF JobGoesOn, KeptJob

(* _attemptCallback, up to the call, after handleResult or retryCallback *)
Answers(known, s, z, t, id) ==
  /\ s.requests[id].status = "Dispatched"
  /\ t <= id.expiry
  /\ z.requests[id].decision \in Verdicts
  /\ id \in known

AnswersAgain(s, z, id) ==
  /\ s.requests[id].status = "CallbackPending"
  /\ z.requests[id].decision = s.requests[id].decision

(* The callback starts: its job still waits, and knows the verdict. *)
LEMMA CallbackEntered ==
  ASSUME NEW s, NEW e, NEW paid, NEW pays, NEW t \in Nat, LevelOK(s, e, paid, pays, t),
         NEW z, NEW f, NEW known, NEW id, id \in RequestIds,
         OneRequestChanges(s, z, paid, paid, id), id \notin paid,
         z.requests[id].status = "CallbackPending",
         Answers(known, s, z, t, id) \/ AnswersAgain(s, z, id),
         SameBooks(e, f), Locked(f, pays)
  PROVE  LevelOK(z, f, paid, pays, t) /\ Onward(known, s, e, z, f, t)
<1> SUFFICES ASSUME NEW j \in 1 .. Len(e.jobs), e.jobs[j].requestId = id
             PROVE  JobGoesOn(known, s, z, paid, t, e.jobs[j], e.jobs[j])
  BY RequestMoves
<1> DEFINE job == e.jobs[j]
<1>1. /\ job \in Job /\ job.requestId = id /\ id # NoRequest
      /\ JobOK(job, s.requests[id], id \in paid, t)
  BY LenProperties, EscrowConstants DEF LevelOK, BooksOK, IsEscrowStorage, JobOKIn
<1>2. id.expiry \in Nat /\ job.deadline \in Nat
  BY <1>1, RouterConstants DEF RequestIds, Job, Times
<1>3. id.expiry <= job.deadline /\ id.callback = Escrow
  BY <1>1 DEF JobOK
<1> HIDE DEF job
<1>4. CASE AnswersAgain(s, z, id)
  <2>1. /\ job.status = "VerificationPending"
        /\ s.requests[id].decision \in Verdicts
    BY <1>1, <1>4 DEF JobOK, FollowsRequest, AnswersAgain
  <2>2. JobOK(job, z.requests[id], id \in paid, t)
    BY <1>1, <1>3, <1>4, <2>1 DEF JobOK, FollowsRequest, AnswersAgain
  <2>3. VerdictFor(z, job) = VerdictFor(s, job)
    BY <1>1, <1>4 DEF VerdictFor, AnswersAgain
  <2>4. JobGoesOn(known, s, z, paid, t, job, job)
    BY <1>1, <2>2, <2>3, JobStays
  <2> QED
    BY <2>4 DEF job
<1>5. CASE Answers(known, s, z, t, id)
  <2>1. /\ job.status = "VerificationPending"
        /\ s.requests[id].decision = "None"
    BY <1>1, <1>2, <1>5 DEF JobOK, FollowsRequest, Answers
  <2>2. JobOK(job, z.requests[id], id \in paid, t)
    BY <1>1, <1>3, <1>5, <2>1 DEF JobOK, FollowsRequest, Answers
  <2>3. VerdictFor(s, job) = "None" /\ CustodyOf(job) = "Held"
    BY <1>1, <2>1 DEF VerdictFor, CustodyOf
  <2>4. t <= job.deadline
    BY <1>2, <1>3, <1>5 DEF Answers
  <2>5. KeptJob(VerdictFor(s, job), job, VerdictFor(z, job), job, t)
    BY <2>3, <2>4 DEF KeptJob
  <2>6. JobGoesOn(known, s, z, paid, t, job, job)
    BY <1>1, <1>5, <2>2, <2>5 DEF JobGoesOn, Answers
  <2> QED
    BY <2>6 DEF job
<1> QED
  BY <1>4, <1>5

(* A callback ends: its request is executed, or only unlocked. *)
LEMMA CallbackLeft ==
  ASSUME NEW s, NEW e, NEW paid, NEW pays, NEW t, LevelOK(s, e, paid, pays, t),
         NEW z, NEW f, NEW paying, NEW paysNow, NEW known, NEW id, id # NoRequest,
         OneRequestChanges(s, z, paid, paying, id),
         s.requests[id].status = "CallbackPending",
         z.requests[id].decision = s.requests[id].decision,
         \/ z.requests[id].status = "CallbackPending" /\ paying = paid
         \/ /\ z.requests[id].status = "CallbackExecuted"
            /\ id \in paid \/ id.callback # Escrow,
         SameBooks(e, f), Locked(f, paysNow)
  PROVE  LevelOK(z, f, paying, paysNow, t) /\ Onward(known, s, e, z, f, t)
<1> SUFFICES ASSUME NEW j \in 1 .. Len(e.jobs), e.jobs[j].requestId = id
             PROVE  JobGoesOn(known, s, z, paying, t, e.jobs[j], e.jobs[j])
  BY RequestMoves
<1> DEFINE job == e.jobs[j]
<1>1. /\ job.requestId = id
      /\ JobOK(job, s.requests[id], id \in paid, t)
  BY DEF LevelOK, JobOKIn
<1> HIDE DEF job
<1>2. JobOK(job, z.requests[id], id \in paying, t)
  BY <1>1 DEF JobOK, FollowsRequest
<1>3. VerdictFor(z, job) = VerdictFor(s, job)
  BY <1>1 DEF VerdictFor
<1>4. JobGoesOn(known, s, z, paying, t, job, job)
  BY <1>1, <1>2, <1>3, JobStays
<1> QED
  BY <1>4 DEF job
-----------------------------------------------------------------------------
SettlementStep == [Settled!Transact \/ Settled!Wait]_(Settled!settlementVars)

EscrowStep == EscrowInv' /\ SettlementStep

(* The fields of the storage of the escrow. *)
LEMMA EscrowFields ==
  /\ EscrowStorage.jobs = jobs /\ EscrowStorage'.jobs = jobs'
  /\ EscrowStorage.nextVerificationNonce = nextVerificationNonce
  /\ EscrowStorage'.nextVerificationNonce = nextVerificationNonce'
  /\ EscrowStorage.requestToJob = requestToJob
  /\ EscrowStorage'.requestToJob = requestToJob'
  /\ EscrowStorage.transferLocked = transferLocked
  /\ EscrowStorage'.transferLocked = transferLocked'
  /\ EscrowStorage.escrowBalance = escrowBalance
  /\ EscrowStorage'.escrowBalance = escrowBalance'
  /\ EscrowStorage.paidTo = paidTo /\ EscrowStorage'.paidTo = paidTo'
BY DEF EscrowStorage

(* The storages are snapshots of themselves. *)
LEMMA SnapshotsNow ==
  /\ IsSnapshot(Storage) /\ IsSnapshot(Storage')
  /\ IsEscrowSnapshot(EscrowStorage) /\ IsEscrowSnapshot(EscrowStorage')
BY DEF IsSnapshot, IsEscrowSnapshot, Storage, EscrowStorage

(* What a good level types. *)
LEMMA LevelTyped ==
  ASSUME NEW s, NEW e, NEW paid, NEW pays, NEW t, LevelOK(s, e, paid, pays, t)
  PROVE  e.jobs \in Seq(Job) /\ e.transferLocked \in BOOLEAN
BY DEF LevelOK, BooksOK, IsEscrowStorage

(* What the invariant types of the current state. *)
LEMMA InvFacts ==
  ASSUME EscrowInv
  PROVE  /\ now \in Nat
         /\ DOMAIN requests \subseteq RequestIds
         /\ requests \in [DOMAIN requests -> Request]
         /\ NoRequest \notin DOMAIN requests
         /\ NoRequest \notin DOMAIN committed.requests
         /\ DOMAIN committed.requests \subseteq DOMAIN requests
         /\ jobs \in Seq(Job) /\ transferLocked \in BOOLEAN
         /\ escrowCommitted.jobs \in Seq(Job)
<1>1. now \in Nat
  BY RouterConstants DEF EscrowInv, IInv, AdminOK, Times
<1>2. /\ DOMAIN requests \subseteq RequestIds
      /\ requests \in [DOMAIN requests -> Request]
      /\ DOMAIN committed.requests \subseteq RequestIds
  BY StorageFields DEF EscrowInv, IInv, StorageOK, IsStorage
<1>3. DOMAIN committed.requests \subseteq DOMAIN requests
  BY StorageFields DEF EscrowInv, Level, Onward
<1>4. jobs \in Seq(Job) /\ transferLocked \in BOOLEAN /\ escrowCommitted.jobs \in Seq(Job)
  BY EscrowFields, LevelTyped DEF EscrowInv, Level
<1> QED
  BY <1>1, <1>2, <1>3, <1>4, EscrowConstants

(* What one transaction does to the committed books is a step of Settlement. *)
LEMMA CommitSettles ==
  ASSUME EscrowInv, now' = now,
         Onward(DOMAIN committed.requests, committed, escrowCommitted,
                committed', escrowCommitted', now),
         escrowCommitted'.jobs \in Seq(Job)
  PROVE  Settled!Transact
<1> DEFINE js == escrowCommitted.jobs
           ks == escrowCommitted'.jobs
           posted == [j \in DOMAIN js |-> [deadline |-> js[j].deadline]]
           custody == [j \in DOMAIN js |-> CustodyOf(js[j])]
           verdict == [j \in DOMAIN js |-> VerdictFor(committed, js[j])]
           posted1 == [j \in DOMAIN ks |-> [deadline |-> ks[j].deadline]]
           custody1 == [j \in DOMAIN ks |-> CustodyOf(ks[j])]
           verdict1 == [j \in DOMAIN ks |-> VerdictFor(committed', ks[j])]
<1>1. /\ DOMAIN js = 1 .. Len(js) /\ DOMAIN ks = 1 .. Len(ks)
      /\ Len(js) \in Nat /\ Len(ks) \in Nat /\ Len(js) <= Len(ks)
  BY InvFacts, LenProperties DEF Onward
<1>2. ASSUME NEW j \in DOMAIN js
      PROVE  /\ j \in DOMAIN ks
             /\ KeptJob(VerdictFor(committed, js[j]), js[j],
                        VerdictFor(committed', ks[j]), ks[j], now)
  BY <1>1 DEF Onward
<1>3. ASSUME NEW j \in DOMAIN js
      PROVE  /\ j \in DOMAIN posted1
             /\ posted1[j] = posted[j]
             /\ verdict1[j] # verdict[j] =>
                  /\ verdict[j] = "None"
                  /\ custody[j] = "Held"
                  /\ now <= posted[j].deadline
             /\ custody1[j] # custody[j] =>
                  /\ custody[j] = "Held"
                  /\ \/ custody1[j] = "Worker" /\ verdict1[j] = "Pass"
                     \/ /\ custody1[j] = "Client"
                        /\ \/ verdict1[j] = "Fail"
                           \/ /\ verdict1[j] \in {"None", "Undetermined"}
                              /\ now > posted[j].deadline
  BY <1>2 DEF KeptJob
<1>4. ASSUME NEW j \in DOMAIN ks \ DOMAIN js
      PROVE  custody1[j] = "Held" /\ verdict1[j] = "None" /\ posted1[j].deadline > now
  <2>1. j \in Len(js) + 1 .. Len(ks)
    BY <1>1
  <2>2. PostedJob(DOMAIN committed.requests, VerdictFor(committed', ks[j]), ks[j], now)
    BY <2>1 DEF Onward
  <2> QED
    BY <2>2 DEF PostedJob
<1>5. /\ DOMAIN posted = DOMAIN js /\ DOMAIN posted1 = DOMAIN ks
  OBVIOUS
<1> HIDE DEF posted, custody, verdict, posted1, custody1, verdict1, js, ks
<1>6. /\ \A j \in DOMAIN posted :
           /\ j \in DOMAIN posted1
           /\ posted1[j] = posted[j]
           /\ verdict1[j] # verdict[j] =>
                /\ verdict[j] = "None"
                /\ custody[j] = "Held"
                /\ now <= posted[j].deadline
           /\ custody1[j] # custody[j] =>
                /\ custody[j] = "Held"
                /\ \/ custody1[j] = "Worker" /\ verdict1[j] = "Pass"
                   \/ /\ custody1[j] = "Client"
                      /\ \/ verdict1[j] = "Fail"
                         \/ /\ verdict1[j] \in {"None", "Undetermined"}
                            /\ now > posted[j].deadline
      /\ \A j \in DOMAIN posted1 \ DOMAIN posted :
           custody1[j] = "Held" /\ verdict1[j] = "None" /\ posted1[j].deadline > now
      /\ now' = now
  BY <1>3, <1>4, <1>5
<1> QED
  BY <1>6 DEF Settled!Transact, Settled!KeepsJob, Settled!PostsJob, Settled!MayPayWorker,
              Settled!MayPayClient, posted, custody, verdict, posted1, custody1, verdict1,
              js, ks, VerdictOn, VerdictFor

(* A level reached from a good one is good for the same transaction. *)
LEMMA LevelOn ==
  ASSUME NEW c, NEW ce, NEW s, NEW e, NEW paid, NEW pays, NEW t \in Nat,
         Level(c, ce, s, e, paid, pays, t),
         NoRequest \notin DOMAIN c.requests, ce.jobs \in Seq(Job),
         NEW z, NEW f, NEW paying, NEW paysNow,
         LevelOK(z, f, paying, paysNow, t), Onward(DOMAIN c.requests, s, e, z, f, t)
  PROVE  Level(c, ce, z, f, paying, paysNow, t)
<1>1. e.jobs \in Seq(Job) /\ f.jobs \in Seq(Job)
  BY LevelTyped DEF Level
<1> QED
  BY <1>1, OnwardTransitive DEF Level

(* A step within a transaction, or that ends it. *)
LEMMA StepOn ==
  ASSUME EscrowInv, IInv', now' = now, Commit, CommitEscrow,
         StacksOK(frames', escrowFrames', committed, escrowCommitted, now),
         NEW paid, NEW pays,
         paid = PaidAt(frames', escrowFrames', Len(frames')),
         pays = PayingAt(escrowFrames', Len(frames')),
         Level(committed, escrowCommitted, Storage', EscrowStorage', paid, pays, now)
  PROVE  EscrowStep
<1>1. CASE frames' = <<>>
  <2>1. /\ committed' = Storage' /\ escrowCommitted' = EscrowStorage'
        /\ Len(frames') = 0 /\ AtRest'
    BY <1>1 DEF Commit, CommitEscrow, AtRest
  <2>2. paid = {} /\ pays = {}
    BY <2>1, NoPrefix
  <2>3. LevelOK(committed', escrowCommitted', {}, {}, now')
    BY <2>1, <2>2 DEF Level
  <2>4. Onward(DOMAIN committed.requests, committed, escrowCommitted,
               committed', escrowCommitted', now)
    BY <2>1 DEF Level
  <2>5. escrowCommitted'.jobs \in Seq(Job)
    BY <2>3, LevelTyped
  <2>6. Level(committed', escrowCommitted', committed', escrowCommitted', {}, {}, now')
    BY <2>3, <2>5, OnwardReflexive DEF Level
  <2>7. StacksOK(frames', escrowFrames', committed', escrowCommitted', now')
    BY <2>1 DEF StacksOK
  <2>10. IsSnapshot(committed') /\ IsEscrowSnapshot(escrowCommitted')
    BY <2>1, SnapshotsNow
  <2>8. EscrowInv'
    BY <2>1, <2>2, <2>3, <2>6, <2>7, <2>10 DEF EscrowInv
  <2>9. Settled!Transact
    BY <2>4, <2>5, CommitSettles
  <2> QED
    BY <2>8, <2>9 DEF EscrowStep, SettlementStep
<1>2. CASE frames' # <<>>
  <2>1. committed' = committed /\ escrowCommitted' = escrowCommitted
    BY <1>2 DEF Commit, CommitEscrow
  <2>2. LevelOK(committed', escrowCommitted', {}, {}, now')
    BY <2>1 DEF EscrowInv
  <2>3. EscrowInv'
    <3>1. IsSnapshot(committed') /\ IsEscrowSnapshot(escrowCommitted')
      BY <2>1 DEF EscrowInv
    <3> QED
      BY <1>2, <2>1, <2>2, <3>1 DEF EscrowInv, AtRest
  <2>4. UNCHANGED Settled!settlementVars
    BY <2>1 DEF Settled!settlementVars, VerdictOn
  <2> QED
    BY <2>3, <2>4 DEF EscrowStep, SettlementStep
<1> QED
  BY <1>1, <1>2

(* The same, for a step that starts at the current level. *)
LEMMA NextOn ==
  ASSUME EscrowInv, IInv', now' = now, Commit, CommitEscrow,
         StacksOK(frames', escrowFrames', committed, escrowCommitted, now),
         NEW paid, NEW pays,
         paid = PaidAt(frames', escrowFrames', Len(frames')),
         pays = PayingAt(escrowFrames', Len(frames')),
         LevelOK(Storage', EscrowStorage', paid, pays, now),
         Onward(DOMAIN committed.requests, Storage, EscrowStorage,
                Storage', EscrowStorage', now)
  PROVE  EscrowStep
<1>1. Level(committed, escrowCommitted, Storage, EscrowStorage,
            PaidAt(frames, escrowFrames, Len(frames)),
            PayingAt(escrowFrames, Len(frames)), now)
  BY DEF EscrowInv
<1>2. Level(committed, escrowCommitted, Storage', EscrowStorage', paid, pays, now)
  BY <1>1, InvFacts, LevelOn
<1> QED
  BY <1>2, StepOn

(* A step that leaves the calls in progress. *)
LEMMA SameCalls ==
  ASSUME EscrowInv, IInv', now' = now, Commit, CommitEscrow,
         frames' = frames, escrowFrames' = escrowFrames,
         NEW paid, NEW pays,
         paid = PaidAt(frames, escrowFrames, Len(frames)),
         pays = PayingAt(escrowFrames, Len(frames)),
         LevelOK(Storage', EscrowStorage', paid, pays, now),
         Onward(DOMAIN committed.requests, Storage, EscrowStorage,
                Storage', EscrowStorage', now)
  PROVE  EscrowStep
<1>1. StacksOK(frames', escrowFrames', committed, escrowCommitted, now)
  BY DEF EscrowInv
<1> QED
  BY <1>1, NextOn

(* A step of the escrow alone, which leaves the calls in progress. *)
LEMMA EscrowAlone ==
  ASSUME EscrowInv, UNCHANGED routerVars, CommitEscrow, escrowFrames' = escrowFrames,
         NEW paid, NEW pays,
         paid = PaidAt(frames, escrowFrames, Len(frames)),
         pays = PayingAt(escrowFrames, Len(frames)),
         LevelOK(Storage, EscrowStorage', paid, pays, now),
         Onward(DOMAIN committed.requests, Storage, EscrowStorage,
                Storage, EscrowStorage', now)
  PROVE  EscrowStep
<1>1. IInv'
  BY NextIInv DEF EscrowInv
<1>2. Storage' = Storage /\ now' = now /\ frames' = frames /\ committed' = committed
  BY DEF routerVars, Storage
<1>3. Commit
  BY <1>2 DEF Commit, EscrowInv, AtRest
<1> QED
  BY <1>1, <1>2, <1>3, SameCalls
-----------------------------------------------------------------------------
PaidNow == PaidAt(frames, escrowFrames, Len(frames))
PayingNow == PayingAt(escrowFrames, Len(frames))
Known == DOMAIN committed.requests

(* The current level is good. *)
LEMMA LevelNow ==
  ASSUME EscrowInv PROVE LevelOK(Storage, EscrowStorage, PaidNow, PayingNow, now)
BY DEF EscrowInv, Level, PaidNow, PayingNow

(* createJob *)
LEMMA CreateStep ==
  ASSUME EscrowInv, NEW c \in Clients, NEW w \in Workers, NEW b \in Bounties,
         NEW d \in 1 .. MaxTime - 1, NEW p \in Policies, CreateJob(c, w, b, d, p)
  PROVE  EscrowStep
<1> DEFINE job == [client |-> c, worker |-> w, bounty |-> b, deadline |-> d,
                   status |-> "Created", requestId |-> NoRequest,
                   policyHash |-> p, evidenceHash |-> NoHash]
<1>1. job \in Job /\ job.status = "Created" /\ job.requestId = NoRequest
      /\ job.deadline > now
  <2>1. d \in Times
    BY RouterConstants DEF Times
  <2> QED
    BY <2>1 DEF Job, JobStatus, Open, CreateJob
<1>2. Posts(EscrowStorage, EscrowStorage', job)
  BY EscrowFields DEF Posts, CreateJob
<1>3. /\ LevelOK(Storage, EscrowStorage', PaidNow, PayingNow, now)
      /\ Onward(Known, Storage, EscrowStorage, Storage, EscrowStorage', now)
  <2> HIDE DEF job
  <2> QED
    BY <1>1, <1>2, LevelNow, InvFacts, JobPosted DEF Known
<1> QED
  BY <1>3, EscrowAlone DEF CreateJob, Known, PaidNow, PayingNow

(* A step of the escrow that changes one job and pays nothing. *)
LEMMA JobStep ==
  ASSUME EscrowInv, UNCHANGED <<routerVars, escrowFrames, transferLocked>>, CommitEscrow,
         NEW j \in 1 .. Len(jobs), NEW job \in Job,
         Replaces(EscrowStorage, EscrowStorage', j, job),
         Unpaid(EscrowStorage, EscrowStorage', j, job),
         JobGoesOn(Known, Storage, Storage, PaidNow, now, jobs[j], job)
  PROVE  EscrowStep
<1>1. OneJobChanges(EscrowStorage, EscrowStorage', j, job)
  BY LevelNow, JobReplaced, EscrowFields
<1>2. OthersAlike(Storage, Storage, PaidNow, PaidNow, EscrowStorage.jobs[j].requestId)
  BY DEF OthersAlike
<1>3. Locked(EscrowStorage', PayingNow)
  BY LevelNow, LevelTyped, EscrowFields DEF Locked, LevelOK
<1>4. /\ LevelOK(Storage, EscrowStorage', PaidNow, PayingNow, now)
      /\ Onward(Known, Storage, EscrowStorage, Storage, EscrowStorage', now)
  BY <1>1, <1>2, <1>3, LevelNow, OneJobMoves, EscrowFields
<1> QED
  BY <1>4, EscrowAlone DEF Known, PaidNow, PayingNow

(* A job and what its request stands at. *)
LEMMA JobNow ==
  ASSUME EscrowInv, NEW j \in 1 .. Len(jobs)
  PROVE  /\ jobs[j] \in Job /\ jobs \in Seq(Job)
         /\ JobOK(jobs[j], Storage.requests[jobs[j].requestId],
                  jobs[j].requestId \in PaidNow, now)
         /\ jobs[j].requestId # NoRequest =>
              jobs[j].requestId \in OwnIds(Storage)
              /\ requestToJob[jobs[j].requestId] = j
  BY LevelNow, LevelTyped, EscrowFields, LenProperties DEF LevelOK, JobOKIn

(* submitEvidence *)
LEMMA SubmitStep ==
  ASSUME EscrowInv, NEW j \in 1 .. Len(jobs), NEW sender, NEW h \in Evidence,
         SubmitEvidence(sender, j, h)
  PROVE  EscrowStep
<1> DEFINE job == [jobs[j] EXCEPT !.evidenceHash = h, !.status = "EvidenceSubmitted"]
<1>1. /\ jobs[j] \in Job /\ jobs[j].status = "Created" /\ jobs[j].requestId = NoRequest
  BY JobNow DEF SubmitEvidence, JobOK
<1>2. /\ job \in Job /\ job.status = "EvidenceSubmitted"
      /\ job.requestId = NoRequest /\ job.bounty = jobs[j].bounty
      /\ job.deadline = jobs[j].deadline
  BY <1>1 DEF Job, JobStatus, Open
<1>3. jobs' = [jobs EXCEPT ![j] = job]
  BY JobNow DEF SubmitEvidence
<1> HIDE DEF job
<1>4. Replaces(EscrowStorage, EscrowStorage', j, job)
  BY <1>1, <1>2, <1>3, EscrowFields DEF Replaces, SubmitEvidence
<1>5. Unpaid(EscrowStorage, EscrowStorage', j, job)
  BY <1>1, <1>2, EscrowFields DEF Unpaid, SubmitEvidence, PaidFor, Due, IsHeld
<1>6. JobGoesOn(Known, Storage, Storage, PaidNow, now, jobs[j], job)
  <2>1. JobOK(job, Storage.requests[job.requestId], job.requestId \in PaidNow, now)
    BY <1>2 DEF JobOK
  <2>2. CustodyOf(job) = CustodyOf(jobs[j])
    BY <1>1, <1>2 DEF CustodyOf
  <2>3. VerdictFor(Storage, job) = VerdictFor(Storage, jobs[j])
    BY <1>1, <1>2 DEF VerdictFor
  <2> QED
    BY <1>2, <2>1, <2>2, <2>3, JobStays
<1> QED
  BY <1>2, <1>4, <1>5, <1>6, JobStep DEF SubmitEvidence

(* markTimedOut *)
LEMMA TimedOutStep ==
  ASSUME EscrowInv, NEW j \in 1 .. Len(jobs), NEW sender, MarkTimedOut(sender, j)
  PROVE  EscrowStep
<1> DEFINE old == jobs[j]
           job == [old EXCEPT !.status = "TimedOut"]
<1>1. /\ old \in Job /\ old.status \in Open /\ now > old.deadline
      /\ JobOK(old, Storage.requests[old.requestId], old.requestId \in PaidNow, now)
      /\ old.status = "VerificationPending" =>
           Storage.requests[old.requestId].status = "Dispatched"
  BY JobNow, StorageFields DEF MarkTimedOut, PastDeadline, StillUnanswered
<1>2. /\ job \in Job /\ job.status = "TimedOut" /\ job.requestId = old.requestId
      /\ job.bounty = old.bounty /\ job.deadline = old.deadline
  BY <1>1 DEF Job, JobStatus
<1>3. jobs' = [jobs EXCEPT ![j] = job]
  BY JobNow DEF MarkTimedOut
<1> HIDE DEF job
<1>4. Replaces(EscrowStorage, EscrowStorage', j, job)
  BY <1>1, <1>2, <1>3, EscrowFields DEF Replaces, MarkTimedOut
<1>5. Unpaid(EscrowStorage, EscrowStorage', j, job)
  BY <1>1, <1>2, EscrowFields DEF Unpaid, MarkTimedOut, PaidFor, Due, IsHeld, Open
<1>6. JobGoesOn(Known, Storage, Storage, PaidNow, now, old, job)
  <2>1. JobOK(job, Storage.requests[job.requestId], job.requestId \in PaidNow, now)
    <3>1. CASE old.requestId = NoRequest
      BY <1>1, <1>2, <3>1 DEF JobOK
    <3>2. CASE old.requestId # NoRequest
      <4>1. /\ old.status = "VerificationPending"
            /\ Storage.requests[old.requestId].status = "Dispatched"
            /\ Storage.requests[old.requestId].decision = "None"
            /\ old.requestId.callback = Escrow
            /\ old.requestId.expiry <= old.deadline
        BY <1>1, <3>2 DEF JobOK, FollowsRequest, Open
      <4>2. old.requestId.expiry \in Nat /\ old.deadline \in Nat /\ now \in Nat
        <5>1. old.requestId \in RequestIds
          BY <1>1, <3>2 DEF Job
        <5> QED
          BY <1>1, <5>1, InvFacts, RouterConstants DEF RequestIds, Job, Times
      <4>3. now > old.requestId.expiry
        BY <1>1, <4>1, <4>2
      <4> HIDE DEF old
      <4> QED
        BY <1>1, <1>2, <3>2, <4>1, <4>3 DEF JobOK, FollowsRequest
    <3> QED
      BY <3>1, <3>2
  <2>2. CustodyOf(job) = CustodyOf(old)
    BY <1>1, <1>2 DEF CustodyOf, Open
  <2>3. VerdictFor(Storage, job) = VerdictFor(Storage, old)
    BY <1>2 DEF VerdictFor
  <2> QED
    BY <1>2, <2>1, <2>2, <2>3, JobStays
<1> QED
  BY <1>2, <1>4, <1>5, <1>6, JobStep DEF MarkTimedOut

(* requestVerification *)
LEMMA VerificationStep ==
  ASSUME EscrowInv, NEW j \in 1 .. Len(jobs), NEW sender, NEW p \in Policies,
         NEW t \in Times, NEW fee \in 0 .. RequestFee,
         RequestVerification(sender, j, p, t, RequestFee, fee)
  PROVE  EscrowStep
<1> DEFINE id == VerificationId(j, t)
<1>1. jobs[j] \in Job /\ nextVerificationNonce \in 1 .. MaxNonce
  BY LevelNow, JobNow, EscrowFields, RouterConstants
  DEF LevelOK, BooksOK, IsEscrowStorage, RequestVerification
<1>2. /\ id \in RequestIds /\ id.requester = Escrow /\ id.callback = Escrow
      /\ id.nonce = nextVerificationNonce /\ id.expiry = t
  BY <1>1, EscrowConstants DEF VerificationId, RequestIds, Nonces, Job
<1>3. /\ RequestDecision(id, RequestFee, fee)
      /\ t <= jobs[j].deadline /\ jobs[j].status = "EvidenceSubmitted"
      /\ nextVerificationNonce <= MaxNonce
      /\ nextVerificationNonce' = nextVerificationNonce + 1
      /\ jobs' = [jobs EXCEPT ![j].requestId = id, ![j].status = "VerificationPending"]
      /\ requestToJob' = [q \in DOMAIN requestToJob \cup {id} |->
                            IF q = id THEN j ELSE requestToJob[q]]
      /\ UNCHANGED <<transferLocked, escrowBalance, paidTo, escrowFrames>>
      /\ CommitEscrow
  BY DEF RequestVerification, ExpiresInTime, AwaitsVerification, NonceAfter
<1> HIDE DEF id
<1>4. IInv'
  <2>1. RequestFee \in Nat /\ fee \in Nat
    BY RouterConstants
  <2> QED
    BY <1>2, <1>3, <2>1, AskStep DEF EscrowInv
<1>5. /\ id \notin DOMAIN requests
      /\ latestNonce' = [latestNonce EXCEPT ![id.requester] = id.nonce]
      /\ requests' = [q \in DOMAIN requests \cup {id} |->
                        IF q = id THEN FreshRequest ELSE requests[q]]
      /\ frames' = frames /\ now' = now /\ Commit
  BY <1>3 DEF RequestDecision
<1>6. latestNonce'[Escrow] = id.nonce
  <2>1. latestNonce \in [Applications -> 0 .. MaxNonce]
    BY StorageFields DEF EscrowInv, IInv, StorageOK, IsStorage
  <2> QED
    BY <1>2, <1>5, <2>1, EscrowConstants
<1>7. Asks(Storage, Storage', EscrowStorage, EscrowStorage', j, id)
  BY <1>2, <1>3, <1>5, <1>6, StorageFields, EscrowFields DEF Asks
<1>8. Known \in SUBSET DOMAIN Storage.requests
  BY InvFacts, StorageFields DEF Known
<1>9. /\ LevelOK(Storage', EscrowStorage', PaidNow, PayingNow, now)
      /\ Onward(Known, Storage, EscrowStorage, Storage', EscrowStorage', now)
  BY <1>7, <1>8, LevelNow, VerificationAsked, EscrowFields
<1> QED
  BY <1>3, <1>4, <1>5, <1>9, SameCalls DEF Known, PaidNow, PayingNow

-----------------------------------------------------------------------------
(* What holds below the innermost call. *)
PaidBelow == PaidAt(frames, escrowFrames, Len(frames) - 1)
PayingBelow == PayingAt(escrowFrames, Len(frames) - 1)

(* A call starts. *)
LEMMA CallStarts ==
  ASSUME EscrowInv, IInv', now' = now, UNCHANGED <<committed, escrowCommitted>>,
         NEW f, NEW g, frames' = Append(frames, f),
         escrowFrames' = Append(escrowFrames, g),
         FramesOK(f, g), g.paying => f.kind = "refund" /\ PayingNow = {},
         LevelOK(f.saved, g.saved, PaidNow, PayingNow, now),
         Onward(Known, Storage, EscrowStorage, f.saved, g.saved, now),
         NEW pays, pays = PayingNow \cup (IF g.paying THEN {Len(frames')} ELSE {}),
         LevelOK(Storage', EscrowStorage', PaidNow, pays, now),
         Onward(Known, Storage, EscrowStorage, Storage', EscrowStorage', now)
  PROVE  EscrowStep
<1>1. /\ Level(committed, escrowCommitted, Storage, EscrowStorage, PaidNow, PayingNow, now)
      /\ StacksOK(frames, escrowFrames, committed, escrowCommitted, now)
  BY DEF EscrowInv, PaidNow, PayingNow
<1>2. Level(committed, escrowCommitted, f.saved, g.saved, PaidNow, PayingNow, now)
  BY <1>1, InvFacts, LevelOn DEF Known
<1>3. /\ StacksOK(frames', escrowFrames', committed, escrowCommitted, now)
      /\ PaidNow = PaidAt(frames', escrowFrames', Len(frames'))
      /\ pays = PayingAt(escrowFrames', Len(frames'))
  BY <1>1, <1>2, PushStacks DEF PaidNow, PayingNow
<1>4. frames' # <<>>
  <2>1. Len(frames') # 0
    BY <1>1, PushFacts DEF StacksOK
  <2> QED
    BY <2>1
<1>5. Commit /\ CommitEscrow
  BY <1>4 DEF Commit, CommitEscrow
<1> QED
  BY <1>3, <1>5, NextOn DEF Known

(* A call ends. *)
LEMMA TopFacts ==
  ASSUME EscrowInv, ~AtRest
  PROVE  /\ Level(committed, escrowCommitted, Top.saved, EscrowTop.saved,
                  PaidBelow, PayingBelow, now)
         /\ FramesOK(Top, EscrowTop)
         /\ PaidNow = PaidBelow \cup
                        (IF Top.kind = "callback" /\ EscrowTop.paying
                         THEN {Top.request} ELSE {})
         /\ PayingNow = PayingBelow \cup (IF EscrowTop.paying THEN {Len(frames)} ELSE {})
         /\ EscrowTop.paying => PayingBelow = {}
         /\ StacksOK(Pop, EscrowPop, committed, escrowCommitted, now)
         /\ PaidBelow = PaidAt(Pop, EscrowPop, Len(Pop))
         /\ PayingBelow = PayingAt(EscrowPop, Len(Pop))
<1>1. StacksOK(frames, escrowFrames, committed, escrowCommitted, now) /\ frames # <<>>
  BY DEF EscrowInv, AtRest
<1> QED
  BY <1>1, PopStacks
  DEF Top, EscrowTop, Pop, EscrowPop, PaidNow, PayingNow, PaidBelow, PayingBelow

(***************************************************************************)
(* The level below goes on from the level s, e: the current or the saved   *)
(* one.                                                                    *)
(***************************************************************************)
LEMMA CallEnds ==
  ASSUME EscrowInv, IInv', now' = now, ~AtRest, Commit, CommitEscrow,
         frames' = Pop, escrowFrames' = EscrowPop,
         NEW s, NEW e, NEW paid, NEW pays,
         Level(committed, escrowCommitted, s, e, paid, pays, now),
         LevelOK(Storage', EscrowStorage', PaidBelow, PayingBelow, now),
         Onward(Known, s, e, Storage', EscrowStorage', now)
  PROVE  EscrowStep
<1>1. Level(committed, escrowCommitted, Storage', EscrowStorage',
            PaidBelow, PayingBelow, now)
  BY InvFacts, LevelOn DEF Known
<1> QED
  BY <1>1, TopFacts, StepOn

(* requestDecision, for an application other than the escrow *)
LEMMA OthersAskStep ==
  ASSUME EscrowInv, OthersAskRouter PROVE EscrowStep
<1> PICK id \in RequestIds, fee \in 0 .. RequestFee :
      id.requester # Escrow /\ RequestDecision(id, RequestFee, fee)
  BY DEF OthersAskRouter
<1>1. IInv'
  <2>1. RequestFee \in Nat /\ fee \in Nat
    BY RouterConstants
  <2> QED
    BY <2>1, AskStep DEF EscrowInv
<1>2. /\ id \notin DOMAIN requests
      /\ latestNonce' = [latestNonce EXCEPT ![id.requester] = id.nonce]
      /\ requests' = [q \in DOMAIN requests \cup {id} |->
                        IF q = id THEN FreshRequest ELSE requests[q]]
      /\ frames' = frames /\ now' = now /\ Commit
      /\ UNCHANGED <<escrowStore, escrowFrames>> /\ CommitEscrow
  BY DEF RequestDecision, OthersAskRouter, EscrowUntouched
<1>3. latestNonce'[Escrow] = latestNonce[Escrow]
  <2>1. latestNonce \in [Applications -> 0 .. MaxNonce]
    BY StorageFields DEF EscrowInv, IInv, StorageOK, IsStorage
  <2> QED
    BY <1>2, <2>1, EscrowConstants
<1>4. OthersAlike(Storage, Storage', PaidNow, PaidNow, NoRequest)
  BY <1>2, <1>3, StorageFields DEF OthersAlike, OwnIds
<1>5. NoRequest \notin OwnIds(Storage)
  BY InvFacts, StorageFields DEF OwnIds
<1>6. SameBooks(EscrowStorage, EscrowStorage') /\ Locked(EscrowStorage', PayingNow)
  BY <1>2, LevelNow, InvFacts, EscrowFields DEF SameBooks, escrowStore, Locked, LevelOK
<1>7. /\ LevelOK(Storage', EscrowStorage', PaidNow, PayingNow, now)
      /\ Onward(Known, Storage, EscrowStorage, Storage', EscrowStorage', now)
  BY <1>4, <1>5, <1>6, LevelNow, NoJobMoves
<1> QED
  BY <1>1, <1>2, <1>7, SameCalls DEF Known, PaidNow, PayingNow

(* _attemptCallback, up to the call *)
LEMMA EnterOn ==
  ASSUME EscrowInv, IInv', NEW id \in DOMAIN requests, NEW r \in Request,
         EnterCallback(id, r), ~requests[id].callbackLocked, EscrowMayBeCalled,
         \/ /\ requests[id].status = "Dispatched" /\ InTime(id)
            /\ r.decision \in Verdicts /\ id \in Known
         \/ requests[id].status = "CallbackPending" /\ r = requests[id]
  PROVE  EscrowStep
<1> DEFINE f == [kind |-> "callback", request |-> id, saved |-> Storage']
           g == [paying |-> FALSE, saved |-> EscrowStorage]
<1>1. /\ requests' = [requests EXCEPT ![id] =
                        [r EXCEPT !.callbackLocked = TRUE, !.status = "CallbackPending"]]
      /\ latestNonce' = latestNonce /\ now' = now
      /\ UNCHANGED <<committed, escrowCommitted>>
      /\ frames' = Append(frames, f) /\ escrowFrames' = Append(escrowFrames, g)
      /\ UNCHANGED escrowStore
  BY DEF EnterCallback, EscrowMayBeCalled
<1>2. /\ DOMAIN requests' = DOMAIN requests
      /\ \A q \in DOMAIN requests \ {id} : requests'[q] = requests[q]
      /\ requests'[id].status = "CallbackPending"
      /\ requests'[id].decision = r.decision
  BY <1>1 DEF Request
<1>3. id \notin PaidNow /\ id \in RequestIds
  <2>1. id \notin Called(frames, Len(frames))
    BY StorageFields DEF EscrowInv, IInv, StorageOK
  <2> QED
    BY <2>1, PaidIsCalled, InvFacts DEF PaidNow
<1>4. OneRequestChanges(Storage, Storage', PaidNow, PaidNow, id)
  BY <1>1, <1>2, StorageFields DEF OneRequestChanges
<1>5. Answers(Known, Storage, Storage', now, id) \/ AnswersAgain(Storage, Storage', id)
  BY <1>2, StorageFields DEF Answers, AnswersAgain, InTime
<1>6. EscrowStorage' = EscrowStorage
  BY <1>1 DEF EscrowStorage, escrowStore
<1>7. SameBooks(EscrowStorage, EscrowStorage) /\ Locked(EscrowStorage, PayingNow)
  BY LevelNow, InvFacts, EscrowFields DEF SameBooks, Locked, LevelOK
<1>8. Storage'.requests[id].status = "CallbackPending"
  BY <1>2, StorageFields
<1>9. /\ LevelOK(Storage', EscrowStorage, PaidNow, PayingNow, now)
      /\ Onward(Known, Storage, EscrowStorage, Storage', EscrowStorage, now)
  BY <1>3, <1>4, <1>5, <1>7, <1>8, LevelNow, InvFacts, CallbackEntered
<1>10. /\ FramesOK(f, g) /\ ~g.paying
       /\ f.saved = Storage' /\ g.saved = EscrowStorage
  BY DEF FramesOK
<1>11. PayingNow = PayingNow \cup (IF g.paying THEN {Len(frames')} ELSE {})
  BY <1>10
<1> HIDE DEF f, g
<1> QED
  BY <1>1, <1>6, <1>9, <1>10, <1>11, CallStarts

(* handleResult *)
LEMMA ResultArrivesStep ==
  ASSUME EscrowInv, NEW id \in Known, ResultArrives(id) PROVE EscrowStep
<1> PICK sender \in Receivers, d \in Verdicts, h \in ResultHashes :
      HandleResult(sender, id, d, id.policyHash, id.evidenceHash, h)
  BY DEF ResultArrives
<1> DEFINE r == [requests[id] EXCEPT !.decision = d, !.resultTxHash = h,
                                     !.status = "Finalized"]
           q == [r EXCEPT !.status = "Dispatched"]
<1>1. /\ id \in DOMAIN requests /\ requests[id].status = "Dispatched"
      /\ InTime(id) /\ EnterCallback(id, r)
  BY DEF HandleResult
<1>2. requests[id] \in Request
  BY <1>1, InvFacts
<1>3. q \in Request /\ q.decision = d /\ EnterCallback(id, q)
  BY <1>1, <1>2 DEF EnterCallback, CallbackIsFree, Request
<1>4. ~requests[id].callbackLocked
  BY <1>1, <1>2 DEF EnterCallback, CallbackIsFree, Request
<1>5. IInv'
  BY ResultStep DEF EscrowInv
<1> HIDE DEF q
<1> QED
  BY <1>1, <1>3, <1>4, <1>5, EnterOn DEF ResultArrives

(* retryCallback *)
LEMMA CallbackRetriedStep ==
  ASSUME EscrowInv, NEW id \in DOMAIN requests, CallbackRetried(id) PROVE EscrowStep
<1>1. /\ requests[id].status = "CallbackPending"
      /\ EnterCallback(id, requests[id])
      /\ ~requests[id].callbackLocked /\ EscrowMayBeCalled
  BY DEF CallbackRetried, RetryCallback, EnterCallback, CallbackIsFree
<1>2. requests[id] \in Request
  BY InvFacts
<1>3. IInv'
  BY RetryStep DEF EscrowInv, CallbackRetried
<1> QED
  BY <1>1, <1>2, <1>3, EnterOn

-----------------------------------------------------------------------------
(* The innermost callback, its request and how the router holds it. *)
LEMMA TopCallback ==
  ASSUME EscrowInv, InCallback
  PROVE  /\ Top.request \in DOMAIN requests
         /\ requests[Top.request].status = "CallbackPending"
         /\ Top.request \in DOMAIN Top.saved.requests
         /\ Top.saved.requests[Top.request].status = "CallbackPending"
         /\ requests \in [DOMAIN requests -> Request]
         /\ Top.saved.requests \in [DOMAIN Top.saved.requests -> Request]
         /\ Top.request # NoRequest
         /\ Top.request \notin PaidBelow
<1>1. frames # <<>> /\ StackOK(frames) /\ Top.kind = "callback"
  BY DEF EscrowInv, IInv, InCallback, AtRest
<1>2. /\ Top.request \in Called(frames, Len(frames))
      /\ StorageOK(Top.saved, Called(frames, Len(frames)))
      /\ Top.request \notin Called(frames, Len(frames) - 1)
  BY <1>1, PopStackOK DEF Top
<1>3. StorageOK(Storage, Called(frames, Len(frames)))
  BY DEF EscrowInv, IInv
<1>4. Top.request \notin PaidBelow
  BY <1>2, PaidIsCalled DEF PaidBelow
<1> QED
  BY <1>2, <1>3, <1>4, InvFacts, StorageFields DEF StorageOK, IsStorage

(* A job that a verdict settles, and the step of the router it comes with. *)
LEMMA AcceptedJob ==
  ASSUME EscrowInv, NEW id, AcceptsResult(id)
  PROVE  /\ requestToJob[id] \in 1 .. Len(jobs)
         /\ jobs[requestToJob[id]] \in Job
         /\ jobs[requestToJob[id]].status = "VerificationPending"
         /\ jobs[requestToJob[id]].requestId = id
         /\ id.callback = Escrow
         /\ id.expiry <= jobs[requestToJob[id]].deadline
         /\ id # NoRequest
         /\ requests[id].status = "CallbackPending"
         /\ requests[id].decision \in Verdicts
         /\ PaidNow = PaidBelow /\ PayingNow = PayingBelow
         /\ id \notin PaidNow
<1> DEFINE j == requestToJob[id]
<1>1. /\ InCallback /\ ~EscrowTop.paying /\ Top.request = id
      /\ id \in DOMAIN requestToJob /\ jobs[j].status = "VerificationPending"
  BY DEF AcceptsResult, InEscrow, AcceptsStatus
<1>2. /\ requests[id].status = "CallbackPending" /\ id # NoRequest
      /\ id \notin PaidBelow
  BY <1>1, TopCallback
<1>3. PaidNow = PaidBelow /\ PayingNow = PayingBelow
  BY <1>1, TopFacts DEF InCallback
<1>4. j \in 1 .. Len(jobs) /\ jobs[j].requestId = id
  BY <1>1, LevelNow, EscrowFields DEF LevelOK, BooksOK, IsEscrowStorage
<1> HIDE DEF j
<1>5. /\ jobs[j] \in Job
      /\ JobOK(jobs[j], requests[id], id \in PaidNow, now)
  BY <1>4, JobNow, StorageFields
<1>6. /\ id.callback = Escrow /\ id.expiry <= jobs[j].deadline
      /\ requests[id].decision \in Verdicts
  BY <1>2, <1>4, <1>5 DEF JobOK, FollowsRequest
<1> QED
  BY <1>1, <1>2, <1>3, <1>4, <1>5, <1>6 DEF j

(* onGatewayResult, when it pays *)
Pays(id, job, recipient) ==
  /\ AcceptsResult(id) /\ TransferIsFree
  /\ job.requestId = id /\ job.deadline = jobs[requestToJob[id]].deadline
  /\ PaidFor(job) = <<recipient>> /\ ~IsHeld(job)
  /\ \/ job.status = "Released" /\ requests[id].decision = "Pass"
     \/ job.status = "Refunded" /\ requests[id].decision = "Fail"
  /\ jobs' = [jobs EXCEPT ![requestToJob[id]] = job]
  /\ Pay(requestToJob[id], recipient)
  /\ escrowFrames' = [escrowFrames EXCEPT ![Len(escrowFrames)].paying = TRUE]
  /\ UNCHANGED <<routerVars, nextVerificationNonce, requestToJob, escrowCommitted>>

(* A verdict pays its job: from now on the payment is in progress. *)
LEMMA VerdictPays ==
  ASSUME EscrowInv, NEW id, NEW job \in Job,
         NEW recipient \in Clients \cup Workers, Pays(id, job, recipient)
  PROVE  EscrowStep
<1>0. AcceptsResult(id)
  BY DEF Pays
<1> DEFINE j == requestToJob[id]
<1>1. /\ j \in 1 .. Len(jobs) /\ jobs[j] \in Job
      /\ jobs[j].status = "VerificationPending" /\ jobs[j].requestId = id
      /\ id.callback = Escrow /\ id.expiry <= jobs[j].deadline /\ id # NoRequest
      /\ requests[id].status = "CallbackPending"
      /\ job.deadline = jobs[j].deadline /\ job.requestId = id /\ ~IsHeld(job)
      /\ PaidFor(job) = <<recipient>>
  BY <1>0, AcceptedJob DEF Pays
<1>2. /\ InCallback /\ Top.request = id /\ frames # <<>>
  BY <1>0 DEF AcceptsResult, InEscrow, InCallback, AtRest
<1>3. PayingNow = {} /\ PaidNow = {}
  <2>1. PayingNow = {}
    BY LevelNow, EscrowFields DEF TransferIsFree, LevelOK, Pays
  <2> QED
    BY <2>1, IdlePrefix DEF PaidNow, PayingNow
<1>4. /\ transferLocked' = TRUE
      /\ escrowBalance' = escrowBalance - jobs[j].bounty
      /\ paidTo' = [paidTo EXCEPT ![j] = Append(paidTo[j], recipient)]
      /\ jobs' = [jobs EXCEPT ![j] = job]
      /\ UNCHANGED <<nextVerificationNonce, requestToJob>>
  <2>1. paidTo' = [paidTo EXCEPT ![j] = Append(@, recipient)]
    BY DEF Pay, Pays
  <2> QED
    BY <2>1 DEF Pay, Pays
<1> HIDE DEF j
<1>5. PaidOut(EscrowStorage, EscrowStorage', j, job, recipient)
  <2>1. IsHeld(jobs[j])
    BY <1>1 DEF IsHeld
  <2> QED
    BY <1>1, <1>4, <2>1, EscrowFields DEF PaidOut
<1>6. Replaces(EscrowStorage, EscrowStorage', j, job)
  BY <1>1, <1>4, EscrowFields DEF Replaces
<1>7. OneJobChanges(EscrowStorage, EscrowStorage', j, job)
  BY <1>1, <1>5, <1>6, LevelNow, JobReplaced, EscrowFields
<1>8. OthersAlike(Storage, Storage, PaidNow, {id}, EscrowStorage.jobs[j].requestId)
  BY <1>1, <1>3, EscrowFields DEF OthersAlike
<1>9. JobGoesOn(Known, Storage, Storage, {id}, now, jobs[j], job)
  <2>1. JobOK(job, Storage.requests[job.requestId], job.requestId \in {id}, now)
    <3>1. job.requestId \in {id} /\ Storage.requests[job.requestId] = requests[id]
      BY <1>1, StorageFields
    <3>2. job.status \in Outcomes(requests[id].decision)
          /\ requests[id].decision \in Verdicts /\ requests[id].decision # "Undetermined"
          /\ job.status \in {"Released", "Refunded"}
      BY <1>1 DEF Outcomes, Verdicts, Pays
    <3> QED
      BY <1>1, <3>1, <3>2 DEF JobOK, FollowsRequest, Pays
  <2>2. VerdictFor(Storage, job) = requests[id].decision
        /\ VerdictFor(Storage, jobs[j]) = requests[id].decision
    BY <1>1, StorageFields DEF VerdictFor
  <2>3. CustodyOf(jobs[j]) = "Held"
    BY <1>1 DEF CustodyOf
  <2>4. KeptJob(requests[id].decision, jobs[j], requests[id].decision, job, now)
    <3>1. CASE job.status = "Released" /\ requests[id].decision = "Pass"
      BY <1>1, <2>3, <3>1 DEF KeptJob, CustodyOf
    <3>2. CASE job.status = "Refunded" /\ requests[id].decision = "Fail"
      BY <1>1, <2>3, <3>2 DEF KeptJob, CustodyOf
    <3> QED
      BY <3>1, <3>2 DEF Pays
  <2>5. VerdictFor(Storage, job) = VerdictFor(Storage, jobs[j])
    BY <2>2
  <2>6. KeptJob(VerdictFor(Storage, jobs[j]), jobs[j], VerdictFor(Storage, job), job, now)
    BY <2>2, <2>4
  <2> QED
    BY <2>1, <2>5, <2>6 DEF JobGoesOn
<1>10. Locked(EscrowStorage', {Len(frames)})
  BY <1>4, EscrowFields DEF Locked
<1>11. /\ LevelOK(Storage, EscrowStorage', {id}, {Len(frames)}, now)
       /\ Onward(Known, Storage, EscrowStorage, Storage, EscrowStorage', now)
  BY <1>1, <1>7, <1>8, <1>9, <1>10, LevelNow, OneJobMoves, EscrowFields
<1>12. /\ Storage' = Storage /\ now' = now /\ frames' = frames
       /\ committed' = committed /\ Commit /\ CommitEscrow
  BY <1>2 DEF routerVars, Storage, Commit, CommitEscrow, Pays
<1>13. /\ StacksOK(frames', escrowFrames', committed, escrowCommitted, now)
       /\ PaidAt(frames', escrowFrames', Len(frames')) = {id}
       /\ PayingAt(escrowFrames', Len(frames')) = {Len(frames)}
  <2>1. CallsEscrow(frames[Len(frames)]) /\ frames[Len(frames)].request = id
    BY <1>1, <1>2 DEF CallsEscrow, InCallback, Top
  <2>2. StacksOK(frames, escrowFrames, committed, escrowCommitted, now)
    BY DEF EscrowInv
  <2>3. escrowFrames' = [escrowFrames EXCEPT ![Len(escrowFrames)].paying = TRUE]
    BY DEF Pays
  <2> QED
    BY <1>2, <1>3, <1>12, <2>1, <2>2, <2>3, PayStacks DEF PayingNow
<1>14. IInv'
  BY NextIInv DEF EscrowInv, Pays
<1> QED
  BY <1>11, <1>12, <1>13, <1>14, NextOn DEF Known

(* onGatewayResult, for the verdicts Pass and Fail *)
LEMMA VerdictPaysStep ==
  ASSUME EscrowInv, NEW id, OnVerdictWithPayment(id) PROVE EscrowStep
<1> DEFINE j == requestToJob[id]
           released == [jobs[j] EXCEPT !.status = "Released"]
           refunded == [jobs[j] EXCEPT !.status = "Refunded"]
<1>1. /\ AcceptsResult(id)
      /\ escrowFrames' = [escrowFrames EXCEPT ![Len(escrowFrames)].paying = TRUE]
      /\ UNCHANGED <<routerVars, nextVerificationNonce, requestToJob, escrowCommitted>>
  BY DEF OnVerdictWithPayment
<1>2. /\ j \in 1 .. Len(jobs) /\ jobs[j] \in Job /\ jobs[j].requestId = id
  BY <1>1, AcceptedJob
<1>3. CASE /\ requests[id].decision = "Pass"
           /\ jobs' = [jobs EXCEPT ![j].status = "Released"]
           /\ Pay(j, jobs[j].worker)
  <2>1. /\ released \in Job /\ released.requestId = id
        /\ released.deadline = jobs[j].deadline
        /\ released.status = "Released" /\ released.worker = jobs[j].worker
        /\ jobs[j].worker \in Clients \cup Workers
    BY <1>2 DEF Job, JobStatus
  <2>2. jobs' = [jobs EXCEPT ![j] = released]
    BY <1>2, <1>3
  <2> HIDE DEF released
  <2>3. PaidFor(released) = <<jobs[j].worker>> /\ ~IsHeld(released)
    BY <2>1 DEF PaidFor, IsHeld
  <2>4. Pay(j, jobs[j].worker) /\ TransferIsFree
    BY <1>3 DEF Pay
  <2>5. Pays(id, released, jobs[j].worker)
    BY <1>1, <1>3, <2>1, <2>2, <2>3, <2>4 DEF Pays
  <2> QED
    BY <2>1, <2>5, VerdictPays
<1>4. CASE /\ requests[id].decision = "Fail"
           /\ jobs' = [jobs EXCEPT ![j].status = "Refunded"]
           /\ Pay(j, jobs[j].client)
  <2>1. /\ refunded \in Job /\ refunded.requestId = id
        /\ refunded.deadline = jobs[j].deadline
        /\ refunded.status = "Refunded" /\ refunded.client = jobs[j].client
        /\ jobs[j].client \in Clients \cup Workers
    BY <1>2 DEF Job, JobStatus
  <2>2. jobs' = [jobs EXCEPT ![j] = refunded]
    BY <1>2, <1>4
  <2> HIDE DEF refunded
  <2>3. PaidFor(refunded) = <<jobs[j].client>> /\ ~IsHeld(refunded)
    BY <2>1 DEF PaidFor, IsHeld
  <2>4. Pay(j, jobs[j].client) /\ TransferIsFree
    BY <1>4 DEF Pay
  <2>5. Pays(id, refunded, jobs[j].client)
    BY <1>1, <1>4, <2>1, <2>2, <2>3, <2>4 DEF Pays
  <2> QED
    BY <2>1, <2>5, VerdictPays
<1> QED
  BY <1>3, <1>4 DEF OnVerdictWithPayment

(* _attemptCallback, after the call *)
LEMMA CallbackExecutes ==
  ASSUME EscrowInv, CallbackReturns
  PROVE  /\ IInv' /\ now' = now /\ ~AtRest /\ Commit /\ frames' = Pop
         /\ OneRequestChanges(Storage, Storage', PaidNow, PaidBelow, Top.request)
         /\ Storage.requests[Top.request].status = "CallbackPending"
         /\ Storage'.requests[Top.request].status = "CallbackExecuted"
         /\ Storage'.requests[Top.request].decision = Storage.requests[Top.request].decision
<1> DEFINE id == Top.request
<1>1. /\ InCallback /\ now' = now /\ ~AtRest /\ Commit /\ frames' = Pop
      /\ requests' = [requests EXCEPT ![id].status = "CallbackExecuted",
                                      ![id].callbackLocked = FALSE]
      /\ latestNonce' = latestNonce
  BY DEF CallbackReturns, InCallback
<1>2. /\ id \in DOMAIN requests /\ requests[id].status = "CallbackPending"
      /\ requests \in [DOMAIN requests -> Request]
  BY <1>1, TopCallback
<1> HIDE DEF id
<1>3. /\ DOMAIN requests' = DOMAIN requests
      /\ \A q \in DOMAIN requests \ {id} : requests'[q] = requests[q]
      /\ requests'[id].status = "CallbackExecuted"
      /\ requests'[id].decision = requests[id].decision
  BY <1>1, <1>2 DEF Request
<1>4. PaidBelow \ {id} = PaidNow \ {id}
  BY <1>1, TopFacts DEF id
<1>5. OneRequestChanges(Storage, Storage', PaidNow, PaidBelow, id)
  BY <1>1, <1>2, <1>3, <1>4, StorageFields DEF OneRequestChanges
<1>6. IInv'
  BY ReturnStep DEF EscrowInv
<1> QED
  BY <1>1, <1>2, <1>3, <1>5, <1>6, StorageFields DEF id

(* onGatewayResult, for the verdict Undetermined *)
LEMMA UndeterminedStep ==
  ASSUME EscrowInv, NEW id, OnVerdictUndetermined(id) PROVE EscrowStep
<1> DEFINE j == requestToJob[id]
           job == [jobs[j] EXCEPT !.status = "Undetermined"]
<1>1. /\ AcceptsResult(id) /\ requests[id].decision = "Undetermined"
      /\ jobs' = [jobs EXCEPT ![j].status = "Undetermined"]
      /\ CallbackReturns /\ escrowFrames' = EscrowPop /\ CommitEscrow
      /\ UNCHANGED <<nextVerificationNonce, requestToJob, transferLocked,
                     escrowBalance, paidTo>>
      /\ id = Top.request
  BY DEF OnVerdictUndetermined, AcceptsResult
<1>2. /\ j \in 1 .. Len(jobs) /\ jobs[j] \in Job
      /\ jobs[j].status = "VerificationPending" /\ jobs[j].requestId = id
      /\ id.callback = Escrow /\ id.expiry <= jobs[j].deadline /\ id # NoRequest
      /\ PaidNow = PaidBelow /\ PayingNow = PayingBelow
  BY <1>1, AcceptedJob
<1>3. /\ job \in Job /\ job.status = "Undetermined" /\ job.requestId = id
      /\ job.deadline = jobs[j].deadline /\ job.bounty = jobs[j].bounty
  BY <1>2 DEF Job, JobStatus
<1>4. jobs' = [jobs EXCEPT ![j] = job]
  BY <1>1, <1>2
<1> HIDE DEF j, job
<1>5. Replaces(EscrowStorage, EscrowStorage', j, job)
  BY <1>1, <1>2, <1>3, <1>4, EscrowFields DEF Replaces
<1>6. Unpaid(EscrowStorage, EscrowStorage', j, job)
  BY <1>1, <1>2, <1>3, EscrowFields DEF Unpaid, PaidFor, Due, IsHeld
<1>7. OneJobChanges(EscrowStorage, EscrowStorage', j, job)
  BY <1>2, <1>3, <1>5, <1>6, LevelNow, JobReplaced, EscrowFields
<1>8. /\ IInv' /\ now' = now /\ ~AtRest /\ Commit /\ frames' = Pop
      /\ OneRequestChanges(Storage, Storage', PaidNow, PaidBelow, id)
      /\ Storage'.requests[id].status = "CallbackExecuted"
      /\ Storage'.requests[id].decision = "Undetermined"
      /\ Storage.requests[id].decision = "Undetermined"
  BY <1>1, CallbackExecutes, StorageFields
<1>9. OthersAlike(Storage, Storage', PaidNow, PaidBelow, EscrowStorage.jobs[j].requestId)
  BY <1>2, <1>8, EscrowFields DEF OthersAlike, OneRequestChanges, OwnIds
<1>10. JobGoesOn(Known, Storage, Storage', PaidBelow, now, jobs[j], job)
  <2>1. JobOK(job, Storage'.requests[job.requestId], job.requestId \in PaidBelow, now)
    BY <1>2, <1>3, <1>8 DEF JobOK, FollowsRequest, Verdicts, Outcomes
  <2>2. CustodyOf(job) = CustodyOf(jobs[j])
    BY <1>2, <1>3 DEF CustodyOf
  <2>3. VerdictFor(Storage', job) = VerdictFor(Storage, jobs[j])
    BY <1>2, <1>3, <1>8 DEF VerdictFor
  <2> QED
    BY <1>3, <2>1, <2>2, <2>3, JobStays
<1>11. Locked(EscrowStorage', PayingBelow)
  BY <1>1, <1>2, LevelNow, InvFacts, EscrowFields DEF Locked, LevelOK
<1>12. /\ LevelOK(Storage', EscrowStorage', PaidBelow, PayingBelow, now)
       /\ Onward(Known, Storage, EscrowStorage, Storage', EscrowStorage', now)
  BY <1>2, <1>3, <1>7, <1>9, <1>10, <1>11, LevelNow, OneJobMoves, EscrowFields
<1>13. Level(committed, escrowCommitted, Storage, EscrowStorage, PaidNow, PayingNow, now)
  BY DEF EscrowInv, PaidNow, PayingNow
<1> QED
  BY <1>1, <1>8, <1>12, <1>13, CallEnds

(* The recipient returns to the callback that paid it. *)
LEMMA PaidReturnsStep ==
  ASSUME EscrowInv, PaidCallbackReturns PROVE EscrowStep
<1> DEFINE id == Top.request
<1>1. /\ InCallback /\ EscrowTop.paying /\ transferLocked' = FALSE
      /\ CallbackReturns /\ escrowFrames' = EscrowPop /\ CommitEscrow
      /\ UNCHANGED <<jobs, nextVerificationNonce, requestToJob, escrowBalance, paidTo>>
  BY DEF PaidCallbackReturns, LockAfterPay
<1>2. /\ IInv' /\ now' = now /\ ~AtRest /\ Commit /\ frames' = Pop
      /\ OneRequestChanges(Storage, Storage', PaidNow, PaidBelow, id)
      /\ Storage.requests[id].status = "CallbackPending"
      /\ Storage'.requests[id].status = "CallbackExecuted"
      /\ Storage'.requests[id].decision = Storage.requests[id].decision
  BY <1>1, CallbackExecutes
<1>3. id \in PaidNow /\ PayingBelow = {} /\ id # NoRequest
  BY <1>1, <1>2, TopFacts, TopCallback DEF InCallback
<1> HIDE DEF id
<1>4. SameBooks(EscrowStorage, EscrowStorage') /\ Locked(EscrowStorage', PayingBelow)
  BY <1>1, <1>3, EscrowFields DEF SameBooks, Locked
<1>5. /\ LevelOK(Storage', EscrowStorage', PaidBelow, PayingBelow, now)
      /\ Onward(Known, Storage, EscrowStorage, Storage', EscrowStorage', now)
  BY <1>2, <1>3, <1>4, LevelNow, CallbackLeft
<1>6. Level(committed, escrowCommitted, Storage, EscrowStorage, PaidNow, PayingNow, now)
  BY DEF EscrowInv, PaidNow, PayingNow
<1> QED
  BY <1>1, <1>2, <1>5, <1>6, CallEnds

(* The callback of another application returns. *)
LEMMA ForeignReturnsStep ==
  ASSUME EscrowInv, ForeignCallbackReturns PROVE EscrowStep
<1> DEFINE id == Top.request
<1>1. /\ InCallback /\ id.callback # Escrow
      /\ CallbackReturns /\ escrowFrames' = EscrowPop /\ CommitEscrow
      /\ UNCHANGED escrowStore
  BY DEF ForeignCallbackReturns
<1>2. /\ IInv' /\ now' = now /\ ~AtRest /\ Commit /\ frames' = Pop
      /\ OneRequestChanges(Storage, Storage', PaidNow, PaidBelow, id)
      /\ Storage.requests[id].status = "CallbackPending"
      /\ Storage'.requests[id].status = "CallbackExecuted"
      /\ Storage'.requests[id].decision = Storage.requests[id].decision
  BY <1>1, CallbackExecutes
<1>3. PayingNow = PayingBelow /\ id # NoRequest
  BY <1>1, <1>2, TopFacts, TopCallback DEF InCallback, FramesOK, CallsEscrow
<1> HIDE DEF id
<1>4. SameBooks(EscrowStorage, EscrowStorage') /\ Locked(EscrowStorage', PayingBelow)
  BY <1>1, <1>3, LevelNow, InvFacts, EscrowFields DEF SameBooks, escrowStore, Locked, LevelOK
<1>5. /\ LevelOK(Storage', EscrowStorage', PaidBelow, PayingBelow, now)
      /\ Onward(Known, Storage, EscrowStorage, Storage', EscrowStorage', now)
  BY <1>1, <1>2, <1>3, <1>4, LevelNow, CallbackLeft
<1>6. Level(committed, escrowCommitted, Storage, EscrowStorage, PaidNow, PayingNow, now)
  BY DEF EscrowInv, PaidNow, PayingNow
<1> QED
  BY <1>1, <1>2, <1>5, <1>6, CallEnds

(* What a revert of the innermost call restores of the escrow. *)
LEMMA EscrowRestored ==
  ASSUME EscrowInv, ~AtRest, RestoreEscrow(EscrowTop.saved)
  PROVE  /\ SameBooks(EscrowTop.saved, EscrowStorage')
         /\ Locked(EscrowStorage', PayingBelow)
         /\ LevelOK(Top.saved, EscrowTop.saved, PaidBelow, PayingBelow, now)
<1>1. LevelOK(Top.saved, EscrowTop.saved, PaidBelow, PayingBelow, now)
  BY TopFacts DEF Level
<1>2. SameBooks(EscrowTop.saved, EscrowStorage')
  BY EscrowFields DEF SameBooks, RestoreEscrow
<1>3. Locked(EscrowStorage', PayingBelow)
  BY <1>1, LevelTyped, EscrowFields DEF Locked, LevelOK, RestoreEscrow
<1> QED
  BY <1>1, <1>2, <1>3

(* A callback reverts. *)
LEMMA RevertsStep ==
  ASSUME EscrowInv, AnyCallbackReverts PROVE EscrowStep
<1> DEFINE id == Top.request
           s == Top.saved
<1>1. /\ InCallback /\ ~AtRest /\ CallbackReverts
      /\ requests' = [s.requests EXCEPT ![id].callbackLocked = FALSE]
      /\ latestNonce' = s.latestNonce /\ now' = now
      /\ Commit /\ frames' = Pop
      /\ RestoreEscrow(EscrowTop.saved) /\ escrowFrames' = EscrowPop /\ CommitEscrow
  BY DEF AnyCallbackReverts, CallbackReverts, InCallback, RestoreAs, Unlocked
<1>2. /\ id \in DOMAIN s.requests /\ s.requests[id].status = "CallbackPending"
      /\ s.requests \in [DOMAIN s.requests -> Request]
      /\ id # NoRequest
  BY <1>1, TopCallback
<1>3. /\ SameBooks(EscrowTop.saved, EscrowStorage')
      /\ Locked(EscrowStorage', PayingBelow)
      /\ LevelOK(s, EscrowTop.saved, PaidBelow, PayingBelow, now)
  BY <1>1, EscrowRestored
<1>4. Level(committed, escrowCommitted, s, EscrowTop.saved, PaidBelow, PayingBelow, now)
  BY <1>1, TopFacts
<1> HIDE DEF id, s
<1>5. /\ DOMAIN requests' = DOMAIN s.requests
      /\ \A q \in DOMAIN s.requests \ {id} : requests'[q] = s.requests[q]
      /\ requests'[id].status = "CallbackPending"
      /\ requests'[id].decision = s.requests[id].decision
  BY <1>1, <1>2 DEF Request
<1>6. OneRequestChanges(s, Storage', PaidBelow, PaidBelow, id)
  BY <1>1, <1>2, <1>5, StorageFields DEF OneRequestChanges
<1>7. /\ LevelOK(Storage', EscrowStorage', PaidBelow, PayingBelow, now)
      /\ Onward(Known, s, EscrowTop.saved, Storage', EscrowStorage', now)
  BY <1>2, <1>3, <1>5, <1>6, CallbackLeft, StorageFields
<1>8. IInv'
  BY <1>1, RevertStep DEF EscrowInv
<1> QED
  BY <1>1, <1>4, <1>7, <1>8, CallEnds

-----------------------------------------------------------------------------
(* A payment that leaves the storage of the router, as a call in progress. *)
LEMMA PaymentStarts ==
  ASSUME IInv, Len(frames) < MaxDepth, NEW f, f.kind = "refund", f.saved = Storage,
         frames' = Append(frames, f),
         UNCHANGED <<requests, deliveries, latestNonce, accruedFees, balance,
                     admin, now, committed>>
  PROVE  IInv'
<1> DEFINE n == Len(frames)
<1>1. /\ IsStack(frames) /\ n \in Nat /\ Len(frames') = n + 1
      /\ \A i \in 1 .. n : frames'[i] = frames[i]
      /\ frames'[n + 1] = f
  BY PushFacts DEF IInv, StackOK
<1>2. Called(frames', n + 1) = Called(frames, n)
  <2>1. Called(frames', n) = Called(frames, n)
    BY <1>1, CalledPrefix
  <2>2. n \in Nat /\ frames'[n + 1].kind # "callback"
    BY <1>1
  <2> HIDE DEF n
  <2>3. Called(frames', n + 1) = Called(frames', n) \cup {}
    BY <2>2, CalledNext
  <2> QED
    BY <2>1, <2>3
<1>3. StorageOK(Storage, Called(frames, n)) /\ Storage' = Storage
  BY DEF IInv, Storage
<1>4. StackOK(frames')
  <2>1. StorageOK(f.saved, Called(Append(frames, f), n + 1))
    BY <1>2, <1>3
  <2> QED
    BY <2>1, PushStackOK DEF IInv
<1>5. StorageOK(Storage', Called(frames', Len(frames')))
  BY <1>1, <1>2, <1>3
<1>6. AdminOK'
  BY DEF IInv, AdminOK, admin
<1> QED
  BY <1>4, <1>5, <1>6 DEF IInv

(* refundTimedOut, up to the transfer *)
LEMMA RefundStep ==
  ASSUME EscrowInv, NEW j \in 1 .. Len(jobs), NEW sender, RefundTimedOut(sender, j)
  PROVE  EscrowStep
<1> DEFINE old == jobs[j]
           id == old.requestId
           job == [old EXCEPT !.status = "Refunded"]
           f == [kind |-> "refund", job |-> j, saved |-> Storage]
           g == [paying |-> TRUE, saved |-> EscrowStorage]
<1>1. /\ Len(frames) < MaxDepth
      /\ \/ old.status = "TimedOut"
         \/ old.status = "Undetermined" /\ now > old.deadline
      /\ ~transferLocked /\ transferLocked' = TRUE
      /\ escrowBalance' = escrowBalance - old.bounty
      /\ jobs' = [jobs EXCEPT ![j].status = "Refunded"]
      /\ frames' = Append(frames, f) /\ escrowFrames' = Append(escrowFrames, g)
      /\ UNCHANGED <<requests, deliveries, latestNonce, accruedFees, balance,
                     admin, now, committed, nextVerificationNonce, requestToJob,
                     escrowCommitted>>
  BY DEF RefundTimedOut, Refundable, PastDeadline, Pay, TransferIsFree
<1>2. paidTo' = [paidTo EXCEPT ![j] = Append(paidTo[j], old.client)]
  BY DEF RefundTimedOut, Pay
<1>3. /\ old \in Job
      /\ JobOK(old, requests[id], id \in PaidNow, now)
      /\ id # NoRequest => id \in OwnIds(Storage)
  BY JobNow, StorageFields
<1>4. /\ job \in Job /\ job.status = "Refunded" /\ job.requestId = id
      /\ job.deadline = old.deadline /\ job.client = old.client
      /\ old.client \in Clients \cup Workers
  BY <1>3 DEF Job, JobStatus
<1>5. jobs' = [jobs EXCEPT ![j] = job]
  BY <1>1, JobNow
<1>6. /\ f.kind = "refund" /\ f.saved = Storage
      /\ g.paying = TRUE /\ g.saved = EscrowStorage
  OBVIOUS
<1> HIDE DEF job, f, g
<1>7. PayingNow = {} /\ PaidNow = {}
  <2>1. PayingNow = {}
    BY <1>1, LevelNow, EscrowFields DEF LevelOK
  <2> QED
    BY <2>1, IdlePrefix DEF PaidNow, PayingNow
<1>8. IInv'
  BY <1>1, <1>6, PaymentStarts DEF EscrowInv
<1>9. OneJobChanges(EscrowStorage, EscrowStorage', j, job)
  <2>1. PaidOut(EscrowStorage, EscrowStorage', j, job, old.client)
    <3>1. IsHeld(old) /\ ~IsHeld(job) /\ PaidFor(job) = <<old.client>>
      BY <1>1, <1>4 DEF IsHeld, PaidFor
    <3> QED
      BY <1>1, <1>2, <1>4, <3>1, EscrowFields DEF PaidOut
  <2>2. Replaces(EscrowStorage, EscrowStorage', j, job)
    BY <1>1, <1>4, <1>5, EscrowFields DEF Replaces
  <2> QED
    BY <1>4, <2>1, <2>2, LevelNow, JobReplaced, EscrowFields
<1>10. Storage' = Storage
  BY <1>1 DEF Storage
<1>11. OthersAlike(Storage, Storage, PaidNow, PaidNow, EscrowStorage.jobs[j].requestId)
  BY DEF OthersAlike
<1>12. JobGoesOn(Known, Storage, Storage, PaidNow, now, old, job)
  <2>1. id # NoRequest => requests[id] \in Request
    BY <1>3, InvFacts, StorageFields DEF OwnIds
  <2> DEFINE v == VerdictFor(Storage, old)
  <2>2. v = IF id = NoRequest THEN "None" ELSE requests[id].decision
    BY StorageFields DEF VerdictFor
  <2>3. VerdictFor(Storage, job) = v
    BY <1>4 DEF VerdictFor
  <2>4. ~(id \in PaidNow)
    BY <1>7
  <2>5. /\ JobOK(job, Storage.requests[job.requestId], job.requestId \in PaidNow, now)
        /\ v \in {"None", "Undetermined"} /\ now > old.deadline
    <3>1. CASE id = NoRequest
      BY <1>1, <1>3, <1>4, <2>2, <3>1 DEF JobOK
    <3>2. CASE id # NoRequest
      <4>1. /\ id.callback = Escrow /\ id.expiry <= old.deadline
            /\ FollowsRequest(old, requests[id], id \in PaidNow, now)
        BY <1>3, <3>2 DEF JobOK
      <4>2. now > old.deadline
        BY <1>1, <1>3 DEF JobOK
      <4>3. \/ /\ requests[id].status = "Dispatched" /\ requests[id].decision = "None"
               /\ now > id.expiry
            \/ /\ requests[id].status = "CallbackExecuted"
               /\ requests[id].decision = "Undetermined"
        BY <1>1, <2>1, <2>4, <3>2, <4>1
        DEF FollowsRequest, Outcomes, Request, Verdicts
      <4>4. FollowsRequest(job, requests[id], job.requestId \in PaidNow, now)
        BY <1>4, <4>3 DEF FollowsRequest, Outcomes, Verdicts
      <4>5. JobOK(job, requests[job.requestId], job.requestId \in PaidNow, now)
        BY <1>4, <4>1, <4>4 DEF JobOK
      <4> HIDE DEF v
      <4> QED
        BY <2>2, <3>2, <4>2, <4>3, <4>5, StorageFields
    <3> QED
      BY <3>1, <3>2
  <2>6. CustodyOf(old) = "Held" /\ CustodyOf(job) = "Client"
    BY <1>1, <1>4 DEF CustodyOf
  <2> HIDE DEF v
  <2>7. KeptJob(v, old, v, job, now)
    BY <1>4, <2>5, <2>6 DEF KeptJob
  <2> QED
    BY <2>3, <2>5, <2>7 DEF JobGoesOn, v
<1>13. Locked(EscrowStorage', {Len(frames')})
  BY <1>1, EscrowFields DEF Locked
<1>14. /\ LevelOK(Storage, EscrowStorage', PaidNow, {Len(frames')}, now)
       /\ Onward(Known, Storage, EscrowStorage, Storage, EscrowStorage', now)
  BY <1>4, <1>9, <1>11, <1>12, <1>13, LevelNow, OneJobMoves, EscrowFields
<1>15. LevelOK(Storage, EscrowStorage, PaidNow, PayingNow, now)
       /\ Onward(Known, Storage, EscrowStorage, Storage, EscrowStorage, now)
  BY LevelNow, LevelTyped, OnwardReflexive
<1>16. FramesOK(f, g) /\ {Len(frames')} = PayingNow \cup (IF g.paying THEN {Len(frames')} ELSE {})
  BY <1>6, <1>7 DEF FramesOK
<1> QED
  BY <1>1, <1>6, <1>7, <1>8, <1>10, <1>14, <1>15, <1>16, CallStarts

(* refundTimedOut, after the transfer *)
LEMMA RefundReturnsStep ==
  ASSUME EscrowInv, RefundReturns PROVE EscrowStep
<1>1. /\ ~AtRest /\ Top.kind = "refund" /\ transferLocked' = FALSE
      /\ frames' = Pop /\ escrowFrames' = EscrowPop /\ Commit /\ CommitEscrow
      /\ UNCHANGED <<requests, deliveries, latestNonce, accruedFees, balance,
                     admin, now, jobs, nextVerificationNonce, requestToJob,
                     escrowBalance, paidTo>>
  BY DEF RefundReturns, InRefund, LockAfterPay
<1>2. IInv'
  <2>1. SameStorage(Storage, Storage')
    BY <1>1, StorageFields DEF SameStorage
  <2>2. StorageOK(Storage, Called(frames, Len(frames))) /\ IInv
    BY DEF EscrowInv, IInv
  <2> QED
    BY <1>1, <2>1, <2>2, PayoutEnds
<1>3. PayingBelow = {} /\ PaidBelow = PaidNow
  BY <1>1, TopFacts DEF FramesOK
<1>4. OthersAlike(Storage, Storage', PaidNow, PaidBelow, NoRequest)
  BY <1>1, <1>3, StorageFields DEF OthersAlike, OwnIds
<1>5. NoRequest \notin OwnIds(Storage)
  BY InvFacts, StorageFields DEF OwnIds
<1>6. SameBooks(EscrowStorage, EscrowStorage') /\ Locked(EscrowStorage', PayingBelow)
  BY <1>1, <1>3, EscrowFields DEF SameBooks, Locked
<1>7. /\ LevelOK(Storage', EscrowStorage', PaidBelow, PayingBelow, now)
      /\ Onward(Known, Storage, EscrowStorage, Storage', EscrowStorage', now)
  BY <1>4, <1>5, <1>6, LevelNow, NoJobMoves
<1>8. Level(committed, escrowCommitted, Storage, EscrowStorage, PaidNow, PayingNow, now)
  BY DEF EscrowInv, PaidNow, PayingNow
<1> QED
  BY <1>1, <1>2, <1>7, <1>8, CallEnds

(* A payment that is no callback reverts. *)
LEMMA PaymentReverts ==
  ASSUME EscrowInv, ~AtRest, Top.kind # "callback",
         Restore(Top.saved), RestoreEscrow(EscrowTop.saved),
         frames' = Pop, escrowFrames' = EscrowPop, UNCHANGED <<admin, now>>,
         Commit, CommitEscrow
  PROVE  EscrowStep
<1>1. SameStorage(Top.saved, Storage')
  BY StorageFields DEF SameStorage, Restore, RestoreAs
<1>2. IInv'
  <2>1. IInv /\ frames # <<>> /\ StackOK(frames)
    BY DEF EscrowInv, IInv, AtRest
  <2>2. StorageOK(Top.saved, Called(frames, Len(frames)))
    BY <2>1, PopStackOK DEF Top
  <2> QED
    BY <1>1, <2>1, <2>2, PayoutEnds
<1>3. /\ SameBooks(EscrowTop.saved, EscrowStorage')
      /\ Locked(EscrowStorage', PayingBelow)
      /\ LevelOK(Top.saved, EscrowTop.saved, PaidBelow, PayingBelow, now)
  BY EscrowRestored
<1>4. OthersAlike(Top.saved, Storage', PaidBelow, PaidBelow, NoRequest)
  BY <1>1 DEF OthersAlike, OwnIds, SameStorage
<1>5. NoRequest \notin OwnIds(Top.saved)
  BY <1>3, EscrowConstants DEF LevelOK, BooksOK, IsEscrowStorage
<1>6. /\ LevelOK(Storage', EscrowStorage', PaidBelow, PayingBelow, now)
      /\ Onward(Known, Top.saved, EscrowTop.saved, Storage', EscrowStorage', now)
  BY <1>3, <1>4, <1>5, NoJobMoves
<1>7. Level(committed, escrowCommitted, Top.saved, EscrowTop.saved, PaidBelow, PayingBelow, now)
  BY TopFacts
<1>8. now' = now
  OBVIOUS
<1> QED
  BY <1>2, <1>6, <1>7, <1>8, CallEnds

(* refundTimedOut, when the client rejects the transfer *)
LEMMA RefundRevertsStep ==
  ASSUME EscrowInv, RefundReverts PROVE EscrowStep
BY PaymentReverts DEF RefundReverts, InRefund

-----------------------------------------------------------------------------
(* withdrawFees *)
LEMMA WithdrawalStep ==
  ASSUME EscrowInv, FeesWithdrawn PROVE EscrowStep
<1>1. CASE /\ \E sender \in Owners : WithdrawFees(sender)
           /\ EscrowMayBeCalled
  <2> PICK sender \in Owners : WithdrawFees(sender)
    BY <1>1
  <2> DEFINE f == [kind |-> "withdraw", saved |-> Storage]
             g == [paying |-> FALSE, saved |-> EscrowStorage]
  <2>1. /\ frames' = Append(frames, f) /\ escrowFrames' = Append(escrowFrames, g)
        /\ requests' = requests /\ latestNonce' = latestNonce /\ now' = now
        /\ UNCHANGED <<committed, escrowCommitted, escrowStore>>
    BY <1>1 DEF WithdrawFees, EscrowMayBeCalled
  <2>2. IInv'
    BY WithdrawStep DEF EscrowInv
  <2>3. OthersAlike(Storage, Storage', PaidNow, PaidNow, NoRequest)
    BY <2>1, StorageFields DEF OthersAlike, OwnIds
  <2>4. NoRequest \notin OwnIds(Storage)
    BY InvFacts, StorageFields DEF OwnIds
  <2>5. SameBooks(EscrowStorage, EscrowStorage') /\ Locked(EscrowStorage', PayingNow)
    BY <2>1, LevelNow, InvFacts, EscrowFields DEF SameBooks, escrowStore, Locked, LevelOK
  <2>6. /\ LevelOK(Storage', EscrowStorage', PaidNow, PayingNow, now)
        /\ Onward(Known, Storage, EscrowStorage, Storage', EscrowStorage', now)
    BY <2>3, <2>4, <2>5, LevelNow, NoJobMoves
  <2>7. LevelOK(Storage, EscrowStorage, PaidNow, PayingNow, now)
        /\ Onward(Known, Storage, EscrowStorage, Storage, EscrowStorage, now)
    BY LevelNow, LevelTyped, OnwardReflexive
  <2>8. /\ FramesOK(f, g) /\ ~g.paying
        /\ f.saved = Storage /\ g.saved = EscrowStorage
    BY DEF FramesOK
  <2>9. PayingNow = PayingNow \cup (IF g.paying THEN {Len(frames')} ELSE {})
    BY <2>8
  <2> HIDE DEF f, g
  <2> QED
    BY <2>1, <2>2, <2>6, <2>7, <2>8, <2>9, CallStarts
<1>2. CASE /\ WithdrawReturns
           /\ escrowFrames' = EscrowPop
           /\ UNCHANGED escrowStore
           /\ CommitEscrow
  <2>1. /\ ~AtRest /\ Top.kind = "withdraw" /\ frames' = Pop /\ Commit /\ now' = now
        /\ requests' = requests /\ latestNonce' = latestNonce
    BY <1>2 DEF WithdrawReturns, InWithdraw
  <2>2. IInv'
    BY <1>2, WithdrawReturnsStep DEF EscrowInv
  <2>3. PayingBelow = PayingNow /\ PaidBelow = PaidNow
    BY <2>1, TopFacts DEF FramesOK, CallsEscrow
  <2>4. OthersAlike(Storage, Storage', PaidNow, PaidBelow, NoRequest)
    BY <2>1, <2>3, StorageFields DEF OthersAlike, OwnIds
  <2>5. NoRequest \notin OwnIds(Storage)
    BY InvFacts, StorageFields DEF OwnIds
  <2>6. SameBooks(EscrowStorage, EscrowStorage') /\ Locked(EscrowStorage', PayingBelow)
    BY <1>2, <2>3, LevelNow, InvFacts, EscrowFields
    DEF SameBooks, escrowStore, Locked, LevelOK
  <2>7. /\ LevelOK(Storage', EscrowStorage', PaidBelow, PayingBelow, now)
        /\ Onward(Known, Storage, EscrowStorage, Storage', EscrowStorage', now)
    BY <2>4, <2>5, <2>6, LevelNow, NoJobMoves
  <2>8. Level(committed, escrowCommitted, Storage, EscrowStorage, PaidNow, PayingNow, now)
    BY DEF EscrowInv, PaidNow, PayingNow
  <2> QED
    BY <1>2, <2>1, <2>2, <2>7, <2>8, CallEnds
<1>3. CASE /\ WithdrawReverts
           /\ RestoreEscrow(EscrowTop.saved)
           /\ escrowFrames' = EscrowPop
           /\ CommitEscrow
  BY <1>3, PaymentReverts DEF WithdrawReverts, InWithdraw
<1> QED
  BY <1>1, <1>2, <1>3 DEF FeesWithdrawn

(* The whole transaction fails. *)
LEMMA AbortAllStep ==
  ASSUME EscrowInv, AbortAll PROVE EscrowStep
<1>1. /\ Abort /\ RestoreEscrow(escrowCommitted) /\ Restore(committed)
      /\ frames' = <<>> /\ escrowFrames' = <<>> /\ now' = now
      /\ committed' = committed /\ escrowCommitted' = escrowCommitted
      /\ Len(frames') = 0 /\ AtRest'
  BY DEF AbortAll, Abort, AtRest
<1>2. IInv'
  BY <1>1, AbortStep DEF EscrowInv
<1>3. LevelOK(committed, escrowCommitted, {}, {}, now)
  BY DEF EscrowInv
<1>4. Storage' = committed /\ EscrowStorage' = escrowCommitted
  BY <1>1 DEF EscrowInv, IsSnapshot, IsEscrowSnapshot, Storage, EscrowStorage,
              Restore, RestoreAs, RestoreEscrow
<1>5. /\ StacksOK(frames', escrowFrames', committed', escrowCommitted', now')
      /\ PaidAt(frames', escrowFrames', Len(frames')) = {}
      /\ PayingAt(escrowFrames', Len(frames')) = {}
  BY <1>1, NoPrefix, EmptySeq DEF StacksOK, IsStack
<1>6. Level(committed', escrowCommitted', Storage', EscrowStorage', {}, {}, now')
  BY <1>1, <1>3, <1>4, LevelTyped, OnwardReflexive DEF Level
<1>7. /\ IsSnapshot(committed') /\ IsEscrowSnapshot(escrowCommitted')
      /\ LevelOK(committed', escrowCommitted', {}, {}, now')
  BY <1>1, <1>3 DEF EscrowInv
<1>8. EscrowInv'
  BY <1>1, <1>2, <1>4, <1>5, <1>6, <1>7 DEF EscrowInv
<1>9. UNCHANGED Settled!settlementVars
  BY <1>1 DEF Settled!settlementVars, VerdictOn
<1> QED
  BY <1>8, <1>9 DEF EscrowStep, SettlementStep

(* The owner's setters and the steps of others leave the books as they are. *)
LEMMA BooksUntouched ==
  ASSUME EscrowInv, IInv', UNCHANGED <<requests, deliveries, latestNonce, accruedFees,
           balance, now, frames, committed, escrowVars>>
  PROVE  EscrowStep
<1>1. /\ Storage' = Storage /\ EscrowStorage' = EscrowStorage
      /\ frames' = frames /\ now' = now /\ escrowFrames' = escrowFrames
      /\ committed' = committed /\ escrowCommitted' = escrowCommitted
  BY DEF escrowVars, escrowStore, Storage, EscrowStorage
<1>2. Commit /\ CommitEscrow
  BY <1>1 DEF Commit, CommitEscrow, EscrowInv, AtRest
<1>3. /\ LevelOK(Storage', EscrowStorage', PaidNow, PayingNow, now)
      /\ Onward(Known, Storage, EscrowStorage, Storage', EscrowStorage', now)
  BY <1>1, LevelNow, LevelTyped, OnwardReflexive
<1> QED
  BY <1>1, <1>2, <1>3, SameCalls DEF Known, PaidNow, PayingNow

(* setResultReceiver and setPaused *)
LEMMA AdministeredStep ==
  ASSUME EscrowInv, RouterAdministered PROVE EscrowStep
<1> PICK sender \in Owners :
      \/ \E r \in Receivers : SetResultReceiver(sender, r)
      \/ \E p \in BOOLEAN : SetPaused(sender, p)
  BY DEF RouterAdministered
<1>1. IInv'
  BY SettersStep DEF EscrowInv
<1>2. AtRest /\ UNCHANGED ledger
  BY DEF SetResultReceiver, SetPaused, OnlyOwner
<1>3. escrowCommitted' = escrowCommitted /\ UNCHANGED <<escrowStore, escrowFrames>>
  <2>1. /\ UNCHANGED <<escrowStore, escrowFrames>>
        /\ escrowCommitted' = IF frames' = <<>> THEN EscrowStorage' ELSE escrowCommitted
    BY DEF RouterAdministered, EscrowUntouched, CommitEscrow
  <2>2. escrowCommitted = EscrowStorage /\ frames' = <<>>
    BY <1>2 DEF EscrowInv, AtRest, ledger
  <2> QED
    BY <2>1, <2>2 DEF EscrowStorage, escrowStore
<1> QED
  BY <1>1, <1>2, <1>3, BooksUntouched DEF ledger, escrowVars

(* Time passes between transactions; a job that has expired stays expired. *)
LEMMA LevelLater ==
  ASSUME NEW s, NEW e, NEW paid, NEW pays, NEW t \in Nat, LevelOK(s, e, paid, pays, t)
  PROVE  LevelOK(s, e, paid, pays, t + 1)
<1> SUFFICES ASSUME NEW j \in 1 .. Len(e.jobs)
             PROVE  JobOKIn(s, e, paid, t + 1, j)
  BY DEF LevelOK
<1> DEFINE job == e.jobs[j]
           id == job.requestId
<1>1. job \in Job /\ JobOKIn(s, e, paid, t, j)
  BY LevelTyped, LenProperties DEF LevelOK
<1>2. /\ job.deadline \in Nat
      /\ id # NoRequest => id.expiry \in Nat
  BY <1>1, RouterConstants DEF Job, RequestIds, Times
<1>3. (job.status = "TimedOut" => t > job.deadline)
        => (job.status = "TimedOut" => t + 1 > job.deadline)
  BY <1>2
<1>4. id # NoRequest => (t > id.expiry => t + 1 > id.expiry)
  BY <1>2
<1>5. JobOK(job, s.requests[id], id \in paid, t)
  BY <1>1 DEF JobOKIn
<1> HIDE DEF job
<1>6. JobOK(job, s.requests[id], id \in paid, t + 1)
  BY <1>3, <1>4, <1>5 DEF JobOK, FollowsRequest
<1> QED
  BY <1>1, <1>6 DEF JobOKIn, job

(* The clock *)
LEMMA TimeStep ==
  ASSUME EscrowInv, TimePasses PROVE EscrowStep
<1>1. /\ frames = <<>> /\ AtRest /\ frames' = frames /\ now' = now + 1
      /\ UNCHANGED <<requests, deliveries, latestNonce, accruedFees, balance,
                     committed, escrowStore, escrowFrames>>
      /\ CommitEscrow /\ Tick
  BY DEF TimePasses, Tick, EscrowUntouched, AtRest
<1>2. /\ Storage' = Storage /\ EscrowStorage' = EscrowStorage
      /\ committed' = committed /\ escrowCommitted' = escrowCommitted
      /\ committed = Storage /\ escrowCommitted = EscrowStorage
  BY <1>1 DEF Storage, EscrowStorage, escrowStore, CommitEscrow, EscrowInv
<1>3. IInv'
  BY <1>1, TickStep DEF EscrowInv
<1>4. now \in Nat
  BY InvFacts
<1>5. LevelOK(committed', escrowCommitted', {}, {}, now')
  <2>1. LevelOK(committed, escrowCommitted, {}, {}, now)
    BY DEF EscrowInv
  <2>2. LevelOK(committed, escrowCommitted, {}, {}, now + 1)
    BY <1>4, <2>1, LevelLater
  <2> QED
    BY <1>1, <1>2, <2>2
<1>6. /\ StacksOK(frames', escrowFrames', committed', escrowCommitted', now')
      /\ PaidAt(frames', escrowFrames', Len(frames')) = {}
      /\ PayingAt(escrowFrames', Len(frames')) = {}
  <2>1. Len(frames') = 0 /\ IsStack(frames') /\ IsStack(escrowFrames')
        /\ Len(escrowFrames') = Len(frames')
    BY <1>1 DEF EscrowInv, StacksOK
  <2> QED
    BY <2>1, NoPrefix DEF StacksOK
<1>7. Level(committed', escrowCommitted', Storage', EscrowStorage', {}, {}, now')
  BY <1>2, <1>5, LevelTyped, OnwardReflexive DEF Level
<1>8. IsSnapshot(committed') /\ IsEscrowSnapshot(escrowCommitted')
  BY <1>2 DEF EscrowInv
<1>9. EscrowInv'
  BY <1>2, <1>3, <1>5, <1>6, <1>7, <1>8 DEF EscrowInv
<1>10. Settled!Wait
  BY <1>1, <1>2, <1>4 DEF Settled!Wait, VerdictOn
<1> QED
  BY <1>9, <1>10 DEF EscrowStep, SettlementStep

-----------------------------------------------------------------------------
(* Every step keeps the invariant and is a step of Settlement, or none. *)
LEMMA NextEscrowStep ==
  ASSUME EscrowInv, [Next]_vars PROVE EscrowStep
<1>1. CASE PostsJobs
  BY <1>1, CreateStep DEF PostsJobs
<1>2. CASE \E j \in JobIds : WorksOn(j)
  <2> PICK j \in 1 .. Len(jobs) : WorksOn(j)
    BY <1>2 DEF JobIds
  <2>1. CASE \E w \in Workers, e \in Evidence : SubmitEvidence(w, j, e)
    BY <2>1, SubmitStep
  <2>2. CASE \E c \in Clients, p \in Policies, t \in Times, fee \in 0 .. RequestFee :
               RequestVerification(c, j, p, t, RequestFee, fee)
    BY <2>2, VerificationStep
  <2>3. CASE \E a \in Clients \cup Workers : MarkTimedOut(a, j)
    BY <2>3, TimedOutStep
  <2>4. CASE \E c \in Clients : RefundTimedOut(c, j)
    BY <2>4, RefundStep
  <2> QED
    BY <2>1, <2>2, <2>3, <2>4 DEF WorksOn
<1>3. CASE \E id \in DOMAIN requests : OnVerdictWithPayment(id)
  BY <1>3, VerdictPaysStep
<1>4. CASE \E id \in DOMAIN requests : OnVerdictUndetermined(id)
  BY <1>4, UndeterminedStep
<1>5. CASE PaidCallbackReturns
  BY <1>5, PaidReturnsStep
<1>6. CASE RefundReturns
  BY <1>6, RefundReturnsStep
<1>7. CASE RefundReverts
  BY <1>7, RefundRevertsStep
<1>8. CASE OthersAskRouter
  BY <1>8, OthersAskStep
<1>9. CASE \E id \in DOMAIN committed.requests : ResultArrives(id)
  BY <1>9, ResultArrivesStep DEF Known
<1>10. CASE \E id \in DOMAIN requests : CallbackRetried(id)
  BY <1>10, CallbackRetriedStep
<1>11. CASE ForeignCallbackReturns
  BY <1>11, ForeignReturnsStep
<1>12. CASE AnyCallbackReverts
  BY <1>12, RevertsStep
<1>13. CASE FeesWithdrawn
  BY <1>13, WithdrawalStep
<1>14. CASE AbortAll
  BY <1>14, AbortAllStep
<1>15. CASE RouterAdministered
  BY <1>15, AdministeredStep
<1>16. CASE TimePasses
  BY <1>16, TimeStep
<1>17. CASE UNCHANGED vars
  <2>1. UNCHANGED routerVars /\ UNCHANGED escrowVars
    BY <1>17 DEF vars
  <2>2. IInv'
    BY <2>1, NextIInv DEF EscrowInv
  <2> QED
    BY <2>1, <2>2, BooksUntouched DEF routerVars
<1> QED
  BY <1>1, <1>2, <1>3, <1>4, <1>5, <1>6, <1>7, <1>8, <1>9, <1>10, <1>11, <1>12,
     <1>13, <1>14, <1>15, <1>16, <1>17 DEF Next

(* The initial states. *)
LEMMA InitEscrow ==
  ASSUME Init PROVE EscrowInv /\ Settled!SettlementInit
<1>1. /\ RouterInit /\ jobs = <<>> /\ nextVerificationNonce = 1
      /\ requestToJob = [id \in {} |-> 0] /\ transferLocked = FALSE
      /\ escrowBalance = 0 /\ paidTo = <<>>
      /\ escrowFrames = <<>> /\ escrowCommitted = EscrowStorage
  BY DEF Init
<1>2. IInv
  BY <1>1, InitIInv
<1>3. /\ DOMAIN requests = {} /\ latestNonce = [a \in Applications |-> 0]
      /\ frames = <<>> /\ Len(frames) = 0 /\ committed = Storage /\ now = 0
      /\ Len(jobs) = 0 /\ jobs \in Seq(Job) /\ Len(paidTo) = 0
  BY <1>1, EmptySeq DEF RouterInit
<1>4. Owed(jobs) = 0
  <2>1. PICK f \in [0 .. Len(jobs) -> Nat] : Owed(jobs) = f[Len(jobs)] /\ f[0] = 0
    BY <1>3, OwedRunsUp
  <2> QED
    BY <1>3, <2>1
<1>5. OwnIds(Storage) = {} /\ DOMAIN requestToJob = {}
  BY <1>1, <1>3, StorageFields DEF OwnIds
<1>6. IsEscrowStorage(EscrowStorage)
  <2>1. nextVerificationNonce \in 1 .. MaxNonce + 1 /\ escrowBalance \in Nat
    BY <1>1, RouterConstants
  <2>2. transferLocked \in BOOLEAN
    BY <1>1, Zenon
  <2> QED
    BY <1>1, <1>3, <1>5, <2>1, <2>2, EscrowFields DEF IsEscrowStorage
<1>7. latestNonce[Escrow] = 0
  BY <1>3, EscrowConstants
<1>8. paidTo \in Seq(Seq(Clients \cup Workers))
  BY <1>1, EmptySeq
<1>9. BooksOK(Storage, EscrowStorage)
  BY <1>1, <1>4, <1>5, <1>6, <1>7, <1>8, StorageFields, EscrowFields DEF BooksOK
<1>10. LevelOK(Storage, EscrowStorage, {}, {}, now)
  BY <1>1, <1>3, <1>9, EscrowFields DEF LevelOK
<1>11. Level(committed, escrowCommitted, Storage, EscrowStorage, {}, {}, now)
  BY <1>1, <1>3, <1>10, LevelTyped, OnwardReflexive DEF Level
<1>12. /\ PaidAt(frames, escrowFrames, Len(frames)) = {}
       /\ PayingAt(escrowFrames, Len(frames)) = {}
       /\ StacksOK(frames, escrowFrames, committed, escrowCommitted, now)
  BY <1>1, <1>3, NoPrefix, EmptySeq DEF StacksOK, IsStack
<1>13. EscrowInv
  BY <1>1, <1>2, <1>3, <1>10, <1>11, <1>12, SnapshotsNow DEF EscrowInv
<1>14. Settled!SettlementInit
  <2>1. escrowCommitted.jobs = <<>> /\ DOMAIN escrowCommitted.jobs = {}
    BY <1>1, EscrowFields
  <2>2. /\ [j \in DOMAIN escrowCommitted.jobs |->
              [deadline |-> escrowCommitted.jobs[j].deadline]] = <<>>
        /\ [j \in DOMAIN escrowCommitted.jobs |->
              CustodyOf(escrowCommitted.jobs[j])] = <<>>
        /\ [j \in DOMAIN escrowCommitted.jobs |->
              VerdictOn(escrowCommitted.jobs[j])] = <<>>
    BY <2>1
  <2> QED
    BY <1>3, <2>2 DEF Settled!SettlementInit
<1> QED
  BY <1>13, <1>14

(***************************************************************************)
(* The invariant holds in every reachable state, of the current storages   *)
(* of both contracts, of the committed ones, and of every pair of storages *)
(* a revert may restore together.                                          *)
(***************************************************************************)
THEOREM EscrowInvariant == Spec => []EscrowInv
<1>1. Init => EscrowInv
  BY InitEscrow
<1>2. EscrowInv /\ [Next]_vars => EscrowInv'
  BY NextEscrowStep DEF EscrowStep
<1> QED
  BY <1>1, <1>2, PTL DEF Spec

(***************************************************************************)
(* Type correctness of both storages and of the two stacks, which stay in  *)
(* step.                                                                   *)
(***************************************************************************)
THEOREM EscrowTyped == Spec => []TypeOK
<1>1. ASSUME EscrowInv PROVE TypeOK
  <2>1. RouterTypeOK
    BY <1>1, IInvTyped DEF EscrowInv
  <2>2. IsEscrowStorage(EscrowStorage) /\ IsEscrowStorage(escrowCommitted)
    BY <1>1 DEF EscrowInv, Level, LevelOK, BooksOK
  <2>3. /\ Len(escrowFrames) = Len(frames)
        /\ DOMAIN escrowFrames = 1 .. Len(frames)
    BY <1>1, LenProperties DEF EscrowInv, StacksOK, IsStack
  <2>4. \A i \in DOMAIN escrowFrames :
          /\ IsEscrowStorage(escrowFrames[i].saved)
          /\ escrowFrames[i].paying \in BOOLEAN
    BY <1>1, <2>3 DEF EscrowInv, StacksOK, Level, LevelOK, BooksOK, FramesOK
  <2> QED
    BY <2>1, <2>2, <2>3, <2>4 DEF TypeOK
<1> QED
  BY <1>1, EscrowInvariant, PTL

(***************************************************************************)
(* The escrow holds exactly the bounties of the jobs that are neither      *)
(* released nor refunded, for any number of jobs and any nesting of calls  *)
(* (createJob, _pay, and the reverts of both).                             *)
(***************************************************************************)
THEOREM EscrowHoldsWhatItOwes == Spec => []HoldsWhatItOwes
<1>1. ASSUME EscrowInv PROVE HoldsWhatItOwes
  BY <1>1, LevelNow, EscrowFields DEF LevelOK, BooksOK, HoldsWhatItOwes
<1> QED
  BY <1>1, EscrowInvariant, PTL

(***************************************************************************)
(* A job is paid at most once, to the worker if it is Released, to the     *)
(* client if it is Refunded, and nobody else is ever paid for it           *)
(* (onGatewayResult, refundTimedOut, _pay).                                *)
(***************************************************************************)
THEOREM BountyPaidAsResolved == Spec => []PaidAsResolved
<1>1. ASSUME EscrowInv PROVE PaidAsResolved
  BY <1>1, LevelNow, EscrowFields DEF LevelOK, JobOKIn, PaidAsResolved, PaidFor, JobIds
<1> QED
  BY <1>1, EscrowInvariant, PTL

(***************************************************************************)
(* The escrow's next nonce is one above the router's latest for it,        *)
(* whatever was rolled back: requestVerification never reverts as a        *)
(* duplicate.                                                              *)
(***************************************************************************)
THEOREM EscrowNonceInStep == Spec => []NonceInStep
<1>1. ASSUME EscrowInv PROVE NonceInStep
  BY <1>1, LevelNow, EscrowFields, StorageFields DEF LevelOK, BooksOK, NonceInStep
<1> QED
  BY <1>1, EscrowInvariant, PTL

(***************************************************************************)
(* The router's requests of the escrow and the escrow's jobs that asked    *)
(* are in one-to-one correspondence (requestVerification, requestToJob).   *)
(***************************************************************************)
THEOREM RequestsNameTheirJobs == Spec => []RequestsBelongToJobs
<1>1. ASSUME EscrowInv PROVE RequestsBelongToJobs
  BY <1>1, LevelNow, EscrowFields, StorageFields
  DEF LevelOK, BooksOK, OwnIds, JobOKIn, RequestsBelongToJobs, JobIds
<1> QED
  BY <1>1, EscrowInvariant, PTL

(***************************************************************************)
(* transferLocked is set exactly while a payment is in progress, and at    *)
(* most one is, however deep the recipients call back (_pay).              *)
(***************************************************************************)
THEOREM PaymentsDoNotOverlap == Spec => []OnePaymentAtATime
<1>1. ASSUME EscrowInv PROVE OnePaymentAtATime
  <2> DEFINE payments == {i \in DOMAIN escrowFrames : escrowFrames[i].paying}
  <2>1. DOMAIN escrowFrames = 1 .. Len(frames)
    BY <1>1, LenProperties DEF EscrowInv, StacksOK, IsStack
  <2>2. payments = PayingNow
    BY <2>1 DEF PayingNow, PayingAt
  <2>3. transferLocked <=> payments # {}
    BY <1>1, <2>2, LevelNow, EscrowFields DEF LevelOK
  <2>4. \A i, k \in payments : i = k
    BY <1>1, <2>1 DEF EscrowInv, StacksOK
  <2>5. Cardinality(payments) <= 1
    <3>1. CASE payments = {}
      BY <3>1, FS_EmptySet
    <3>2. CASE payments # {}
      <4> HIDE DEF payments
      <4>1. PICK i : payments = {i}
        BY <2>4, <3>2
      <4>2. Cardinality({i}) = 1
        BY FS_Singleton
      <4> QED
        BY <4>1, <4>2
    <3> QED
      BY <3>1, <3>2
  <2> QED
    BY <2>3, <2>5 DEF OnePaymentAtATime
<1> QED
  BY <1>1, EscrowInvariant, PTL

(***************************************************************************)
(* Between transactions the two contracts agree on every job that asked:   *)
(* an executed callback has settled its job, a pending one can still, and  *)
(* a job given up on has a request that no verdict can reach any more.     *)
(***************************************************************************)
THEOREM EscrowAgreesWithRouter == Spec => []ContractsAgree
<1>1. ASSUME EscrowInv PROVE ContractsAgree
  <2>1. LevelOK(committed, escrowCommitted, {}, {}, now)
    BY <1>1 DEF EscrowInv
  <2>2. DOMAIN escrowCommitted.jobs = 1 .. Len(escrowCommitted.jobs)
    BY <2>1, LevelTyped, LenProperties
  <2>3. ASSUME NEW j \in DOMAIN escrowCommitted.jobs,
               escrowCommitted.jobs[j].requestId # NoRequest
        PROVE  JobAgreesWithRequest(escrowCommitted.jobs[j],
                 committed.requests[escrowCommitted.jobs[j].requestId])
    BY <2>1, <2>2, <2>3
    DEF LevelOK, JobOKIn, JobOK, FollowsRequest, JobAgreesWithRequest
  <2> QED
    BY <2>3 DEF ContractsAgree
<1> QED
  BY <1>1, EscrowInvariant, PTL

(***************************************************************************)
(* The router's own invariants survive the escrow as its application,      *)
(* whose payments run in the middle of the router's callbacks.             *)
(***************************************************************************)
THEOREM RouterSoundUnderEscrow ==
  Spec => [](DeliveredOnce /\ LockIsHeldByOneCall /\ FeesAreHeld
               /\ NonceIdentifiesRequest)
<1>1. EscrowInv => /\ DeliveredOnce /\ LockIsHeldByOneCall /\ FeesAreHeld
                   /\ NonceIdentifiesRequest
  BY IInvLocks
  DEF EscrowInv, IInv, StorageOK, DeliveredOnce, FeesAreHeld, NonceIdentifiesRequest
<1> QED
  BY <1>1, EscrowInvariant, PTL

(***************************************************************************)
(* Whatever the recipients of payments call and whichever of them revert,  *)
(* the escrow keeps the promise of Settlement.tla: what one transaction    *)
(* changes is one step of it.                                              *)
(***************************************************************************)
THEOREM EscrowRefinesSettlement == Spec => ImplementsSettlement
<1>1. Init => EscrowInv /\ Settled!SettlementInit
  BY InitEscrow
<1>2. EscrowInv /\ [Next]_vars => EscrowInv' /\ SettlementStep
  BY NextEscrowStep DEF EscrowStep
<1> QED
  BY <1>1, <1>2, PTL DEF Spec, ImplementsSettlement, SettlementStep, Settled!SettlementSpec
=============================================================================
