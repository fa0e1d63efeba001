------------------------------ MODULE TickArchive ------------------------------
(***************************************************************************)
(* The lossless tick archive of one month: runs of the acquisition fetch   *)
(* every hour in batches of parallel workers, publish the provider's       *)
(* payload before decoding it, then the decoded and the MT5 conversion,    *)
(* then the hour's manifest, and the month's summary when every hour has   *)
(* one.  Publication is create-only; runs may overlap, the provider may    *)
(* answer two fetches differently, and a run may die between any two       *)
(* publications.                                                           *)
(***************************************************************************)
EXTENDS Integers, Sequences, FiniteSets, FiniteSetsExt

CONSTANTS Hours,            \* the month's hours, counted from a Monday 00:00 in New York
          Holidays,         \* hours of January 1 and December 25
          Payloads,         \* [stream, ticks]; the empty body has stream "empty"
          Runs, Workers,
          MaxFetches, MaxStops,
          NoArtifact

\* What the artifacts of an hour may hold: decoded ticks, their MT5 conversion, and manifests.
Ticks == [ms : Nat, bid : Int, ask : Int]
Conversions == {<<>>} \cup {payload.ticks : payload \in Payloads}
Manifests == [status : {200, 404}, source : Payloads \cup {NoArtifact},
              decoded : Conversions, converted : Conversions, count : Nat, duplicates : Nat]

ASSUME TickAssumption ==
    /\ Hours \subseteq Nat /\ \E first, last \in Hours : Hours = first..last
    /\ Workers \in Nat \ {0}
    /\ \A payload \in Payloads : payload.ticks \in Seq(Ticks)
    /\ NoArtifact \notin Payloads /\ NoArtifact \notin Conversions /\ NoArtifact \notin Manifests

VARIABLES raw, decoded, mt5, manifest,   \* hour -> published artifact
          summary,                       \* the month's manifest
          failures,                      \* failure records, content-addressed
          run,                           \* run -> its batch, task states and records
          used                           \* fetches and crashes so far (bounds)

tickVars == <<raw, decoded, mt5, manifest, summary, failures, run, used>>

\* Friday 17:00 to Sunday 17:00 New York, and the two holidays.
ExpectedClosure(h) == (113 <= h % 168 /\ h % 168 < 161) \/ h \in Holidays

-----------------------------------------------------------------------------
(* decode and conversion *)

\* A tick is [ms, bid, ask] with ms scaled so that an hour is 4 units long.
Decodable(payload, h) ==
    /\ payload.stream \in {"empty", "ok"}
    /\ payload.ticks = <<>> => ExpectedClosure(h)
    /\ \A i \in DOMAIN payload.ticks :
         LET tick == payload.ticks[i]
         IN  /\ tick.ms < 4 /\ tick.bid <= tick.ask
             /\ \A j \in 1..(i - 1) : payload.ticks[j].ms <= tick.ms

\* Both conversions are verified row by row against the ticks in source order.
Conversion(ticks) == [decoded |-> ticks, mt5 |-> ticks]

Duplicates(ticks) == Cardinality({i \in 2..Len(ticks) : ticks[i].ms = ticks[i - 1].ms})

-----------------------------------------------------------------------------
Stopped == [pc |-> "stopped"]
Busy(r) == run[r].pc = "batch"
Task(pc) == [pc |-> pc, attempt |-> 1, status |-> 200,
             payload |-> NoArtifact, ticks |-> <<>>]

\* The hours of the batch that starts at h.
Batch(h) == {g \in Hours : h <= g /\ g < h + Workers}

NewBatch(h, records) == [pc |-> "batch", from |-> h, records |-> records,
                         task |-> [g \in Batch(h) |-> Task("manifest?")]]

Working(r, h, pc) == Busy(r) /\ h \in DOMAIN run[r].task /\ run[r].task[h].pc = pc
Move(r, h, task) == run' = [run EXCEPT ![r].task[h] = task]
Stage(r, h, pc) == [run[r].task[h] EXCEPT !.pc = pc]

TickInit ==
    /\ raw = [h \in Hours |-> NoArtifact]
    /\ decoded = [h \in Hours |-> NoArtifact]
    /\ mt5 = [h \in Hours |-> NoArtifact]
    /\ manifest = [h \in Hours |-> NoArtifact]
    /\ summary = NoArtifact
    /\ failures = {}
    /\ run = [r \in Runs |-> Stopped]
    /\ used = [fetches |-> 0, crashes |-> 0]

\* Mutant: publication renames over what is there.
PublishedMutant(artifact, value) == value

\* publish: create-only; an existing artifact must hold the same bytes.
Published(artifact, value) == IF artifact = NoArtifact THEN value ELSE artifact
Conflicting(artifact, value) == artifact \notin {NoArtifact, value}

\* acquire_record: the failed hour leaves a failure record and re-raises.
Fail(r, h) ==
    /\ Move(r, h, Stage(r, h, "failed"))
    /\ failures' = failures \cup {[hour |-> h, source |-> raw[h]]}

-----------------------------------------------------------------------------
(* acquire_month and acquire_hour, one action per publication *)

Start(r) ==
    /\ run[r] = Stopped
    /\ run' = [run EXCEPT ![r] = NewBatch(Min(Hours), <<>>)]
    /\ UNCHANGED <<raw, decoded, mt5, manifest, summary, failures, used>>

\* The cached manifest is accepted only if the three artifacts still match it.
Verified(h) ==
    LET record == manifest[h]
    IN  /\ record.source = (IF record.status = 404 THEN NoArtifact ELSE raw[h])
        /\ record.decoded = decoded[h] /\ record.converted = mt5[h]
        /\ record.status = 404 => ExpectedClosure(h)

CheckManifest(r, h) ==
    /\ Working(r, h, "manifest?")
    /\ IF manifest[h] # NoArtifact
       THEN IF Verified(h) THEN Move(r, h, Stage(r, h, "done")) /\ UNCHANGED failures
                           ELSE Fail(r, h)
       ELSE /\ Move(r, h, IF raw[h] # NoArtifact THEN [Stage(r, h, "raw") EXCEPT !.payload = raw[h]]
                          ELSE Stage(r, h, "fetch"))
            /\ UNCHANGED failures
    /\ UNCHANGED <<raw, decoded, mt5, manifest, summary, used>>

Fetch(r, h) ==
    /\ Working(r, h, "fetch") /\ used.fetches < MaxFetches
    /\ used' = [used EXCEPT !.fetches = @ + 1]
    /\ UNCHANGED <<raw, decoded, mt5, manifest, summary>>

\* A whole body with status 200.
FetchBody(r, h) ==
    /\ Fetch(r, h)
    /\ \E payload \in Payloads : Move(r, h, [Stage(r, h, "raw") EXCEPT !.payload = payload])
    /\ UNCHANGED failures

\* 404 counts as an empty hour only inside a declared closure.
FetchMissing(r, h) ==
    /\ Fetch(r, h)
    /\ IF ExpectedClosure(h)
       THEN Move(r, h, [Stage(r, h, "decoded") EXCEPT !.status = 404]) /\ UNCHANGED failures
       ELSE Fail(r, h)

\* A retryable error waits and asks again, the third one is final.
FetchError(r, h) ==
    /\ Fetch(r, h)
    /\ IF run[r].task[h].attempt < 3
       THEN Move(r, h, [run[r].task[h] EXCEPT !.attempt = @ + 1]) /\ UNCHANGED failures
       ELSE Fail(r, h)

\* Any other status, a torn body, or a cooldown the run may not sit out.
FetchRefused(r, h) == Fetch(r, h) /\ Fail(r, h)

\* The payload is published before it is decoded: evidence survives a bad hour.
PublishRaw(r, h) ==
    /\ Working(r, h, "raw")
    /\ LET payload == run[r].task[h].payload
       IN  /\ raw' = [raw EXCEPT ![h] = Published(@, payload)]
           /\ IF Conflicting(raw[h], payload) \/ ~Decodable(payload, h)
              THEN /\ Move(r, h, Stage(r, h, "failed"))
                   /\ failures' = failures \cup {[hour |-> h, source |-> raw'[h]]}
              ELSE /\ Move(r, h, [Stage(r, h, "decoded") EXCEPT !.ticks = payload.ticks])
                   /\ UNCHANGED failures
    /\ UNCHANGED <<decoded, mt5, manifest, summary, used>>

PublishDecoded(r, h) ==
    /\ Working(r, h, "decoded")
    /\ LET rows == Conversion(run[r].task[h].ticks).decoded
       IN  /\ decoded' = [decoded EXCEPT ![h] = Published(@, rows)]
           /\ IF Conflicting(decoded[h], rows) THEN Fail(r, h)
              ELSE Move(r, h, Stage(r, h, "mt5")) /\ UNCHANGED failures
    /\ UNCHANGED <<raw, mt5, manifest, summary, used>>

PublishMt5(r, h) ==
    /\ Working(r, h, "mt5")
    /\ LET rows == Conversion(run[r].task[h].ticks).mt5
       IN  /\ mt5' = [mt5 EXCEPT ![h] = Published(@, rows)]
           /\ IF Conflicting(mt5[h], rows) THEN Fail(r, h)
              ELSE Move(r, h, Stage(r, h, "manifest")) /\ UNCHANGED failures
    /\ UNCHANGED <<raw, decoded, manifest, summary, used>>

\* The record digests the files as they are on disk now.
RecordOf(r, h) ==
    LET task == run[r].task[h]
    IN  [status |-> task.status, source |-> IF task.status = 200 THEN raw[h] ELSE NoArtifact,
         decoded |-> decoded[h], converted |-> mt5[h],
         count |-> Len(task.ticks), duplicates |-> Duplicates(task.ticks)]

PublishManifest(r, h) ==
    /\ Working(r, h, "manifest")
    /\ manifest' = [manifest EXCEPT ![h] = Published(@, RecordOf(r, h))]
    /\ IF Conflicting(manifest[h], RecordOf(r, h)) THEN Fail(r, h)
       ELSE Move(r, h, Stage(r, h, "done")) /\ UNCHANGED failures
    /\ UNCHANGED <<raw, decoded, mt5, summary, used>>

\* Results are taken in hour order when the whole batch has ended; the first
\* failure ends the run (BLOCKED_NOT_COMPLETE).
Failed(r) == \E h \in DOMAIN run[r].task : run[r].task[h].pc = "failed"

Collect(r) ==
    /\ Busy(r)
    /\ \A h \in DOMAIN run[r].task : run[r].task[h].pc \in {"done", "failed"}
    /\ LET batch == {h \in DOMAIN run[r].task : run[r].task[h].pc = "done"}
           ordered == [i \in 1..Cardinality(batch) |->
                          manifest[CHOOSE h \in batch : Cardinality({g \in batch : g < h}) = i - 1]]
           records == run[r].records \o ordered
           next == run[r].from + Workers
       IN  run' = [run EXCEPT ![r] =
                     IF Failed(r) THEN Stopped
                     ELSE IF Batch(next) # {} THEN NewBatch(next, records)
                     ELSE [pc |-> "summary", records |-> records]]
    /\ UNCHANGED <<raw, decoded, mt5, manifest, summary, failures, used>>

\* The sum of the counts is not zero.
HasTicks(records) == \E i \in DOMAIN records : records[i].count > 0

\* The month is certified from the collected records, once, never without ticks.
Certify(r) ==
    /\ run[r].pc = "summary"
    /\ summary' = IF HasTicks(run[r].records) THEN Published(summary, run[r].records)
                  ELSE summary
    /\ run' = [run EXCEPT ![r] = Stopped]
    /\ UNCHANGED <<raw, decoded, mt5, manifest, failures, used>>

TickCrash(r) ==
    /\ run[r] # Stopped /\ used.crashes < MaxStops
    /\ run' = [run EXCEPT ![r] = Stopped]
    /\ used' = [used EXCEPT !.crashes = @ + 1]
    /\ UNCHANGED <<raw, decoded, mt5, manifest, summary, failures>>

TickNext ==
    \E r \in Runs :
        \/ Start(r) \/ Collect(r) \/ Certify(r) \/ TickCrash(r)
        \/ \E h \in Hours :
             \/ CheckManifest(r, h)
             \/ FetchBody(r, h) \/ FetchMissing(r, h) \/ FetchError(r, h) \/ FetchRefused(r, h)
             \/ PublishRaw(r, h) \/ PublishDecoded(r, h) \/ PublishMt5(r, h)
             \/ PublishManifest(r, h)

TickSpec == TickInit /\ [][TickNext]_tickVars

-----------------------------------------------------------------------------
(* Properties *)

(* The artifacts a manifest names are one consistent conversion of what the *)
(* provider sent, or the declared empty hour.                               *)
HourBacked(h) ==
    LET record == manifest[h]
    IN  /\ record # NoArtifact
        /\ decoded[h] = record.decoded /\ mt5[h] = record.converted
        /\ IF record.status = 404
           THEN ExpectedClosure(h) /\ record.decoded = <<>> /\ record.converted = <<>>
           ELSE /\ raw[h] = record.source /\ Decodable(raw[h], h)
                /\ record.decoded = raw[h].ticks /\ record.converted = raw[h].ticks

(* A certified month is complete and true: one record per hour, in hour     *)
(* order, each backed by artifacts that still agree with one another, with  *)
(* ticks in some hour -- although workers finish in any order, runs overlap *)
(* and crash, and the provider changes its mind between fetches.            *)
MonthCertified ==
    summary # NoArtifact =>
        /\ Len(summary) = Cardinality(Hours)
        /\ HasTicks(summary)
        /\ \A h \in Hours :
             HourBacked(h) /\ summary[Cardinality({g \in Hours : g < h}) + 1] = manifest[h]
=============================================================================
