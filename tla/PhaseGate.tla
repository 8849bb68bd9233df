------------------------------- MODULE PhaseGate -------------------------------
(***************************************************************************)
(* The live acceptance test: scripts/run-testnet-phase-gate.mjs pays for    *)
(* one job per work of the data set, registers the requests and reports;    *)
(* monitor-testnet-phase-gate.mjs aggregates the checkpoints of several     *)
(* runs; resume-testnet-request.mjs reports a single request.               *)
(*                                                                         *)
(* The escrow, the bridge and the index are modules of their own; here a    *)
(* job is what the scripts can tell of it.  Jobs are numbered, and a job's   *)
(* number is also its request.                                              *)
(***************************************************************************)
EXTENDS Registration, Sequences, SequencesExt

CONSTANTS
  Works,            \* ids of tests/jobs/work-submissions.json, in its order
  Expected,         \* [Range(Works) -> decision that is expected]
  Required,         \* correct works a gate takes; 17 of 20 in the source
  Nobody,           \* no invocation of the handler
  MaxRuns           \* bound: how often the script is started

ASSUME PhaseGateConstants ==
  /\ Works \in Seq(Range(Works)) /\ IsInjective(Works)
  /\ Required \in 1 .. Len(Works)
  /\ MaxRuns \in Nat
  /\ Nobody \notin Handlers

VARIABLES
  jobs,             \* the escrow's jobs, in the order of their ids
  script,           \* the process, if one runs
  files,            \* the checkpoint of every run
  runs              \* runs so far

vars == <<registration, faults, jobs, script, files, runs>>

Decisions == {"PASS", "FAIL", "UNDETERMINED"}
NoDecision == "none"

(* JobStatus by the decision: 4, 5 and 6 in the scripts. *)
SettledAs == [PASS |-> "Released", FAIL |-> "Refunded",
              UNDETERMINED |-> "Undetermined"]

Created(work) ==
  [work |-> work, status |-> "Created",
   decision |-> NoDecision,        \* `result' of the record
   executed |-> FALSE]             \* its callback was

Off == [pc |-> "off", todo |-> {}, job |-> 0, post |-> Nobody, prepared |-> <<>>]

Init ==
  /\ RegistrationInit
  /\ jobs = <<>>
  /\ script = Off
  /\ files = <<>>
  /\ runs = 0

Requested(j) == jobs[j].status \notin {"Created", "EvidenceSubmitted"}
Dispatched == {j \in DOMAIN jobs : Requested(j)}

-----------------------------------------------------------------------------
(***************************************************************************)
(* run-testnet-phase-gate.mjs.                                             *)
(***************************************************************************)
At(pc) == script.pc = pc
GoTo(pc) == script' = [script EXCEPT !.pc = pc, !.post = Nobody]
End == script' = Off

(* The works are paid for in their order; `todo' are places in Works. *)
Upcoming == Min(script.todo)

(* The operator names the works to skip; those left are paid for. *)
Start(skip) ==
  LET todo == {i \in DOMAIN Works : Works[i] \notin skip}
  IN /\ At("off")
     /\ runs < MaxRuns
     /\ todo # {}
     /\ runs' = runs + 1
     /\ files' = Append(files, <<>>)
     /\ script' = [Off EXCEPT !.pc = "create", !.todo = todo]
     /\ UNCHANGED <<registration, faults, jobs>>

(* withTransientRetries: when the answer to a transaction that was         *)
(* accepted is lost, it is sent once more.                                 *)
Answer(pc) ==
  \/ GoTo(pc) /\ UNCHANGED faults
  \/ Fault /\ UNCHANGED script

CreateJob ==
  /\ At("create")
  /\ Len(jobs) < MaxJobs
  /\ jobs' = Append(jobs, Created(Works[Upcoming]))
  /\ \/ script' = [script EXCEPT !.pc = "evidence", !.job = Len(jobs) + 1]
        /\ UNCHANGED faults
     \/ Fault /\ UNCHANGED script
  /\ UNCHANGED <<registration, files, runs>>

SetStatus(j, status) == jobs' = [jobs EXCEPT ![j].status = status]

SubmitEvidence ==
  /\ At("evidence")
  /\ jobs[script.job].status = "Created"
  /\ SetStatus(script.job, "EvidenceSubmitted")
  /\ Answer("request")
  /\ UNCHANGED <<registration, files, runs>>

RequestVerification ==
  /\ At("request")
  /\ jobs[script.job].status = "EvidenceSubmitted"
  /\ SetStatus(script.job, "VerificationPending")
  /\ Answer("register")
  /\ UNCHANGED <<registration, files, runs>>

(* InvalidJobState is not transient: the process ends. *)
SecondSendReverts ==
  /\ \/ At("evidence") /\ jobs[script.job].status # "Created"
     \/ At("request") /\ jobs[script.job].status # "EvidenceSubmitted"
  /\ End
  /\ UNCHANGED <<registration, faults, jobs, files, runs>>

Register(h) ==
  /\ At("register")
  /\ Post(h, Body(script.job, "lower", script.job, {}))
  /\ script' = [script EXCEPT !.pc = "reply", !.post = h]
  /\ UNCHANGED <<faults, jobs, files, runs>>

(* fetchWithRetries: a 5xx, or no answer at all, posts again - while the   *)
(* first invocation may still be at work.                                  *)
Reply ==
  /\ At("reply")
  /\ \E reply \in Replies :
       /\ posts[script.post].pc = reply
       /\ \/ reply = "201" /\ GoTo("hub")
          \/ reply = "500" /\ GoTo("register")
          \/ reply \in {"409", "422"} /\ End
  /\ Set(script.post, Idle)
  /\ UNCHANGED <<nonces, records, faults, jobs, files, runs>>

NoReply ==
  /\ At("reply")
  /\ Fault
  /\ GoTo("register")
  /\ UNCHANGED <<registration, jobs, files, runs>>

(* ensureHubDelivery (that it gives up is ScriptDies), reconcile() and      *)
(* prepared.push.                                                          *)
EnsureHubDelivery ==
  /\ At("hub")
  /\ script' = [script EXCEPT !.pc = "checkpoint", !.prepared = Append(@, script.job)]
  /\ UNCHANGED <<registration, faults, jobs, files, runs>>

(* The checkpoint holds everything prepared so far. *)
Written_AfterTheLoop(prepared) ==
  IF script.todo = {Upcoming} THEN prepared ELSE files[runs]
Written(prepared) == prepared

WriteCheckpoint ==
  /\ At("checkpoint")
  /\ files' = [files EXCEPT ![runs] = Written(script.prepared)]
  /\ script' = [script EXCEPT !.todo = @ \ {Upcoming},
                              !.pc = IF script.todo = {Upcoming} THEN "poll" ELSE "create"]
  /\ UNCHANGED <<registration, faults, jobs, runs>>

(* The loop over `prepared' only reads (and resends packets, see Deliver); *)
(* it ends when every request completed or time is up, and the report is   *)
(* RunReport below.                                                        *)
Finish ==
  /\ At("poll")
  /\ End
  /\ UNCHANGED <<registration, faults, jobs, files, runs>>

(* A failure that is not transient, retries that are used up, a kill. *)
ScriptDies ==
  /\ ~At("off")
  /\ Fault
  /\ End
  /\ UNCHANGED <<registration, jobs, files, runs>>

-----------------------------------------------------------------------------
(***************************************************************************)
(* What happens around the scripts.                                        *)
(***************************************************************************)
Quiet == UNCHANGED <<registration, faults, script, files, runs>>

(* The relay has GenLayer's decision and persists it in the record. *)
Adjudicate(j) ==
  /\ Requested(j) /\ jobs[j].decision = NoDecision
  /\ \E record \in RecordsOf(j) : Served(record)
  /\ \E decision \in Decisions : jobs' = [jobs EXCEPT ![j].decision = decision]
  /\ Quiet

(* The packet that returns the decision is received on Base, or resent     *)
(* there by a script; the callback settles the job, if it still waits.     *)
Deliver(j) ==
  /\ jobs[j].decision # NoDecision
  /\ jobs[j].status = "VerificationPending"
  /\ jobs' = [jobs EXCEPT ![j].status = SettledAs[jobs[j].decision],
                          ![j].executed = TRUE]
  /\ Quiet

(* The deadline passed: markTimedOut, which the escrow allows while the     *)
(* request has no result on Base, and refundTimedOut.                      *)
RefundLate(j) ==
  /\ jobs[j].status \in {"VerificationPending", "Undetermined"}
  /\ SetStatus(j, "Refunded")
  /\ Quiet

-----------------------------------------------------------------------------
Run ==
  \/ \E skip \in SUBSET Range(Works) : Start(skip)
  \/ CreateJob \/ SubmitEvidence \/ RequestVerification \/ SecondSendReverts
  \/ \E h \in Handlers : Register(h)
  \/ Reply \/ NoReply \/ EnsureHubDelivery \/ WriteCheckpoint \/ Finish \/ ScriptDies

Api ==
  \E h \in Handlers :
    /\ \/ InsertNonce(h) \/ InsertRecord(h) \/ Die(h)
       \/ PostByAnybody(h, Dispatched)
       \/ ~(At("reply") /\ script.post = h) /\ Forget(h)
    /\ UNCHANGED <<jobs, script, files, runs>>

Chains ==
  \E j \in DOMAIN jobs :
    Adjudicate(j) \/ Deliver(j) \/ RefundLate(j)

Next == Run \/ Api \/ Chains
Spec == Init /\ [][Next]_vars

-----------------------------------------------------------------------------
(***************************************************************************)
(* The reports a script could write now.  Polls only read what never goes  *)
(* back, so what they saw is some of what there is; the escrow is read last.*)
(***************************************************************************)
Complete_WithoutCallback(j) == Found(j) /\ jobs[j].decision # NoDecision
Complete(j) ==
  Found(j) /\ jobs[j].decision # NoDecision /\ jobs[j].executed

SettledCorrectly(j) == jobs[j].status = SettledAs[jobs[j].decision]
MatchesExpected(j) == jobs[j].decision = Expected[jobs[j].work]

Correct(seen) == {j \in seen : MatchesExpected(j) /\ SettledCorrectly(j)}

Report(kind, seen, correct, required) ==
  [kind |-> kind, correct |-> correct, required |-> required,
   passed |-> /\ Cardinality(seen) >= required
              /\ Cardinality(correct) >= required]

(* A run over a single work is a smoke test and needs only that one. *)
RunReport ==
  IF ~At("poll") THEN {}
  ELSE {Report("run", seen, Correct(seen),
               IF Len(script.prepared) = 1 THEN 1 ELSE Required) :
          seen \in SUBSET {j \in Range(script.prepared) : Complete(j)}}

(* Where the entries are, and that one is read before another. *)
Places(order) == UNION {{<<f, i>> : i \in DOMAIN order[f]} : f \in DOMAIN order}
Before(p, q) == p[1] < q[1] \/ (p[1] = q[1] /\ p[2] < q[2])

(* The first entry of a work wins, over the files in the order they are    *)
(* given; every work must have one, and every entry a record.              *)
Entries(order) ==
  LET entry(p) == order[p[1]][p[2]]
  IN {entry(p) : p \in {q \in Places(order) :
        \A r \in Places(order) : Before(r, q) => jobs[entry(r)].work # jobs[entry(q)].work}}

AggregateReport ==
  UNION {LET entries == Entries(order)
             polled == {j \in entries : jobs[j].decision # NoDecision}
         IN IF Cardinality(entries) # Len(Works) \/ \E j \in entries : ~Found(j)
            THEN {}
            ELSE {Report("aggregate", seen, Correct(seen), Required) :
                    seen \in SUBSET polled}
         : order \in {files, Reverse(files)}}

(* The decision that was expected is not read. *)
ResumeReport ==
  {Report("resume", {j}, {k \in {j} : SettledCorrectly(k)}, 1) :
     j \in {k \in DOMAIN jobs : Complete(k)}}

-----------------------------------------------------------------------------
(***************************************************************************)
(* A report that passes is backed by as many different works as it takes,  *)
(* and every job it counts was settled by the callback that brought the    *)
(* decision it reports.  The aggregate does not wait for the callback      *)
(* (monitor-testnet-phase-gate.mjs:141): a FAIL it counts may also have    *)
(* been refunded because the deadline passed.                              *)
(***************************************************************************)
PassedReportIsBacked ==
  \A report \in RunReport \cup AggregateReport \cup ResumeReport :
    report.passed =>
      /\ Cardinality({jobs[j].work : j \in report.correct}) >= report.required
      /\ \A j \in report.correct :
           \/ jobs[j].executed
           \/ report.kind = "aggregate" /\ jobs[j].decision = "FAIL"

(***************************************************************************)
(* However a run ends and however often the operator starts the next, one  *)
(* failure - or one registration by somebody else that comes first - costs *)
(* the trace of at most one job that was paid for: every other is in a     *)
(* checkpoint (run-testnet-phase-gate.mjs:326).                            *)
(***************************************************************************)
EveryFailureLosesOneJob ==
  LET kept == UNION {Range(files[i]) : i \in DOMAIN files}
      inHand == IF At("off") \/ At("create") \/ At("poll") THEN 0 ELSE 1
  IN Cardinality(DOMAIN jobs \ kept) <= faults + inHand
=============================================================================
