---------------------------- MODULE ExternalImport ----------------------------
(***************************************************************************)
(* The import gateway for files from elsewhere, their certification, and   *)
(* the sanitized derivative of a raw import.  An import stages copies,     *)
(* normalizes them, promotes the staging directory and the canonical file, *)
(* and only then inserts its catalog rows; a failure cleans up, a dying    *)
(* process does not.  Dataset identity is the fingerprint of contents and  *)
(* interpretation, so a retry finds what an earlier attempt left.          *)
(***************************************************************************)
EXTENDS Observations

CONSTANTS Sources,            \* the files a user has
          SourceContents,     \* what they may contain: sequences of rows
          Interpretations,    \* time zone, columns, resolution and price type together
          Importers,          \* processes that import, certify or sanitize
          MaxJobs, MaxEdits, MaxKills,
          Torn                \* a canonical file whose copy broke off

VARIABLES content,            \* source -> its present rows
          artifacts,          \* dataset -> promoted raw directory
          canonicals,         \* dataset -> canonical file outside it
          imports,            \* dataset -> catalog row of external_imports
          certified,          \* datasets rows made by certification
          derivatives,        \* raw dataset -> promoted sanitized directory
          lineage,            \* raw dataset -> registered derivative's manifest
          journal,            \* SANITIZED_DATASET_CREATED entries
          job,                \* what each process is doing
          jobs                \* jobs, edits and kills so far (bounds)

catalogVars == <<imports, certified, lineage>>
importVars == <<content, artifacts, canonicals, derivatives, catalogVars, journal, job, jobs>>

\* The scientific fingerprint: component hashes in path order, and their reading.
DatasetIds == [contents : Seq(SourceContents), reading : Interpretations]

\* Paths are compared, minutes lie on a grid; a file is a sequence of rows
\* whose timestamps can be read or not.
ASSUME ImportAssumption ==
    /\ Sources \subseteq Int /\ IsFiniteSet(Sources)
    /\ Grid \in Nat \ {0} /\ NoTime \notin Int
    /\ \A rows \in SourceContents :
         /\ Len(rows) \in Nat /\ DOMAIN rows = 1..Len(rows)
         /\ \A i \in DOMAIN rows : rows[i].t \in Int \cup {NoTime}

Free == [pc |-> "free"]
Doing(p, pc) == job[p].pc = pc
Set(p, value) == job' = [job EXCEPT ![p] = value]
Take(p) == /\ Doing(p, "free") /\ jobs.taken < MaxJobs
           /\ jobs' = [jobs EXCEPT !.taken = @ + 1]

ImportInit ==
    /\ content \in [Sources -> SourceContents]
    /\ artifacts = <<>> /\ canonicals = <<>> /\ imports = <<>> /\ derivatives = <<>>
    /\ lineage = <<>> /\ certified = {} /\ journal = {}
    /\ job = [p \in Importers |-> Free]
    /\ jobs = [taken |-> 0, edits |-> 0, kills |-> 0]

With(table, id, value) ==
    [key \in DOMAIN table \cup {id} |-> IF key = id THEN value ELSE table[key]]
Without(table, id) == Restrict(table, DOMAIN table \ {id})
Has(table, id) == id \in DOMAIN table

\* The user may edit a source at any time.
Edit ==
    /\ jobs.edits < MaxEdits
    /\ \E s \in Sources, rows \in SourceContents : content' = [content EXCEPT ![s] = rows]
    /\ jobs' = [jobs EXCEPT !.edits = @ + 1]
    /\ UNCHANGED <<artifacts, canonicals, derivatives, catalogVars, journal, job>>

-----------------------------------------------------------------------------
(* import_files *)

Identity(paths, reading) ==
    [contents |-> [i \in DOMAIN paths |-> content[paths[i]]], reading |-> reading]

\* Same component hashes under another reading.
Alternates(id) == {other \in DOMAIN imports : other.contents = id.contents}

\* Hash the sources, return the existing import of the same identity, refuse
\* a second interpretation that gives no reason; otherwise open a staging
\* directory.
Import(p) ==
    /\ Take(p)
    /\ \E paths \in {Ascending(s) : s \in SUBSET Sources \ {{}}},
          reading \in Interpretations, reason \in BOOLEAN :
         LET id == Identity(paths, reading)
         IN  Set(p, IF Has(imports, id) \/ (Alternates(id) # {} /\ ~reason) THEN Free
                    ELSE [pc |-> "copy", id |-> id, paths |-> paths])
    /\ UNCHANGED <<content, artifacts, canonicals, derivatives, catalogVars, journal>>

\* Copies must still have the hash taken before; then they are normalized.
Copy(p) ==
    /\ Doing(p, "copy")
    /\ LET id == job[p].id
           preserved == [i \in DOMAIN job[p].paths |-> content[job[p].paths[i]]]
           rows == CanonicalRows(preserved)
       IN  Set(p, IF preserved # id.contents \/ rows = <<>> THEN Free
                  ELSE [pc |-> "collision?", id |-> id, preserved |-> preserved, canonical |-> rows,
                        paths |-> job[p].paths,
                        status |-> IF Serious(preserved) THEN "QUARANTINED" ELSE "STAGED"])
    /\ UNCHANGED <<content, artifacts, canonicals, derivatives, catalogVars, journal, jobs>>

CheckCollision(p) ==
    /\ Doing(p, "collision?")
    /\ LET id == job[p].id
       IN  Set(p, IF Has(artifacts, id) \/ Has(canonicals, id) THEN Free
                  ELSE [job[p] EXCEPT !.pc = "promote"])
    /\ UNCHANGED <<content, artifacts, canonicals, derivatives, catalogVars, journal, jobs>>

\* os.replace of a directory onto a non-empty one fails.
Promote(p) ==
    /\ Doing(p, "promote")
    /\ LET id == job[p].id
       IN  IF Has(artifacts, id) THEN Set(p, Free) /\ UNCHANGED artifacts
           ELSE /\ artifacts' = With(artifacts, id, [preserved |-> job[p].preserved,
                                                     canonical |-> job[p].canonical])
                /\ Set(p, [job[p] EXCEPT !.pc = "canonical"])
    /\ UNCHANGED <<content, canonicals, derivatives, catalogVars, journal, jobs>>

CopyCanonical(p) ==
    /\ Doing(p, "canonical")
    /\ canonicals' = With(canonicals, job[p].id, job[p].canonical)
    /\ Set(p, [job[p] EXCEPT !.pc = "insert"])
    /\ UNCHANGED <<content, artifacts, derivatives, catalogVars, journal, jobs>>

\* Manifest and rows; the canonical's checksum is the one on disk.
InsertImport(p) ==
    /\ Doing(p, "insert") /\ Has(canonicals, job[p].id)
    /\ LET id == job[p].id
       IN  imports' = With(imports, id, [status |-> job[p].status, paths |-> job[p].paths,
                                         canonical |-> canonicals[id]])
    /\ Set(p, Free)
    /\ UNCHANGED <<content, artifacts, canonicals, derivatives, certified, lineage, journal, jobs>>

\* Mutant: the clean-up removes the target, whoever promoted it.
ImportFailsMutant(p) ==
    /\ job[p].pc \in {"copy", "collision?", "promote", "canonical", "insert"}
    /\ artifacts' = Without(artifacts, job[p].id)
    /\ canonicals' = Without(canonicals, job[p].id)
    /\ Set(p, Free)
    /\ UNCHANGED <<content, derivatives, catalogVars, journal, jobs>>

\* Any exception before registration removes what this attempt promoted; a
\* canonical file whose copy broke off is not yet known to be promoted.
ImportFails(p) ==
    /\ job[p].pc \in {"copy", "collision?", "promote", "canonical", "insert"}
    /\ LET id == job[p].id
           promoted == job[p].pc \in {"canonical", "insert"}
       IN  /\ artifacts' = IF promoted THEN Without(artifacts, id) ELSE artifacts
           /\ canonicals' \in IF job[p].pc = "insert" THEN {Without(canonicals, id)}
                              ELSE IF job[p].pc = "canonical"
                              THEN {canonicals, With(canonicals, id, Torn)} ELSE {canonicals}
    /\ Set(p, Free)
    /\ UNCHANGED <<content, derivatives, catalogVars, journal, jobs>>

-----------------------------------------------------------------------------
(* certify *)

\* The import is found by dataset id or by import id, and must be STAGED with
\* original, preserved and canonical files unchanged.
Certifiable(id) ==
    /\ imports[id].status = "STAGED"
    /\ \A i \in DOMAIN imports[id].paths :
         content[imports[id].paths[i]] = id.contents[i] /\ artifacts[id].preserved[i] = id.contents[i]
    /\ canonicals[id] = imports[id].canonical

RequestCertificate(p) ==
    /\ Take(p)
    /\ \E id \in DOMAIN imports, key \in {"dataset", "import"} :
         Set(p, IF Certifiable(id) THEN [pc |-> "certify", id |-> id, key |-> key] ELSE Free)
    /\ UNCHANGED <<content, artifacts, canonicals, derivatives, catalogVars, journal>>

\* One transaction: datasets and its seals, then the status -- looked up by the
\* caller's key in the dataset_id column.  A second insert fails on the key.
CommitCertificate(p) ==
    /\ Doing(p, "certify")
    /\ LET id == job[p].id
       IN  IF id \in certified THEN UNCHANGED <<imports, certified>>
           ELSE /\ certified' = certified \cup {id}
                /\ imports' = IF job[p].key = "dataset"
                              THEN [imports EXCEPT ![id].status = "CERTIFIED"] ELSE imports
    /\ Set(p, Free)
    /\ UNCHANGED <<content, artifacts, canonicals, derivatives, lineage, journal, jobs>>

-----------------------------------------------------------------------------
(* sanitize_external *)

\* One preserved component, still the imported bytes, with bars left.  A
\* registered derivative is verified and returned.
Sanitize(p) ==
    /\ Take(p)
    /\ \E id \in DOMAIN imports :
         LET result == Sanitized(artifacts[id].preserved[1])
             usable == Len(id.contents) = 1 /\ artifacts[id].preserved = id.contents
                       /\ result.times # <<>>
         IN  Set(p, IF ~usable \/ Has(lineage, id) THEN Free
                    ELSE [pc |-> "stage", id |-> id, status |-> imports[id].status,
                          manifest |-> [bars |-> result, made |-> jobs.taken]])
    /\ UNCHANGED <<content, artifacts, canonicals, derivatives, catalogVars, journal>>

\* Mutant: the directory is adopted, the manifest of this attempt registered.
PublishDerivativeMutant(p) ==
    /\ Doing(p, "stage")
    /\ LET id == job[p].id
       IN  derivatives' = IF Has(derivatives, id) THEN derivatives
                          ELSE With(derivatives, id, job[p].manifest)
    /\ Set(p, [job[p] EXCEPT !.pc = "register"])
    /\ UNCHANGED <<content, artifacts, canonicals, catalogVars, journal, jobs>>

\* A complete unregistered directory of an earlier attempt is adopted with its
\* own manifest, otherwise the staging directory takes its place.
PublishDerivative(p) ==
    /\ Doing(p, "stage")
    /\ LET id == job[p].id
       IN  IF Has(derivatives, id)
           THEN /\ Set(p, [job[p] EXCEPT !.pc = "register", !.manifest = derivatives[id]])
                /\ UNCHANGED derivatives
           ELSE /\ derivatives' = With(derivatives, id, job[p].manifest)
                /\ Set(p, [job[p] EXCEPT !.pc = "register"])
    /\ UNCHANGED <<content, artifacts, canonicals, catalogVars, journal, jobs>>

\* Dataset and lineage in one transaction; a second registration fails.
RegisterDerivative(p) ==
    /\ Doing(p, "register")
    /\ LET id == job[p].id
       IN  IF Has(lineage, id) THEN Set(p, Free) /\ UNCHANGED lineage
           ELSE /\ lineage' = With(lineage, id, job[p].manifest)
                /\ Set(p, [job[p] EXCEPT !.pc = "journal"])
    /\ UNCHANGED <<content, artifacts, canonicals, derivatives, imports, certified, journal, jobs>>

\* The raw parent must not have changed status meanwhile.
AppendJournal(p) ==
    /\ Doing(p, "journal")
    /\ LET id == job[p].id
       IN  journal' = IF imports[id].status = job[p].status THEN journal \cup {id} ELSE journal
    /\ Set(p, Free)
    /\ UNCHANGED <<content, artifacts, canonicals, derivatives, catalogVars, jobs>>

Kill(p) ==
    /\ ~Doing(p, "free") /\ jobs.kills < MaxKills
    /\ Set(p, Free)
    /\ jobs' = [jobs EXCEPT !.kills = @ + 1]
    /\ UNCHANGED <<content, artifacts, canonicals, derivatives, catalogVars, journal>>

ImportNext ==
    \/ Edit
    \/ \E p \in Importers :
         \/ Import(p) \/ Copy(p) \/ CheckCollision(p) \/ Promote(p) \/ CopyCanonical(p)
         \/ InsertImport(p) \/ ImportFails(p) \/ RequestCertificate(p) \/ CommitCertificate(p)
         \/ Sanitize(p) \/ PublishDerivative(p) \/ RegisterDerivative(p) \/ AppendJournal(p)
         \/ Kill(p)

ImportSpec == ImportInit /\ [][ImportNext]_importVars

-----------------------------------------------------------------------------
(* Properties *)

(* A catalogued import is backed by what it says: preserved copies with the *)
(* hashes of its identity and a canonical file with the registered checksum.*)
(* No failing or concurrent attempt at the same identity takes them away,   *)
(* and what is certified was never quarantined.                             *)
ImportedIsBacked ==
    \A id \in DOMAIN imports :
        /\ Has(artifacts, id) /\ artifacts[id].preserved = id.contents
        /\ Has(canonicals, id) /\ canonicals[id] = imports[id].canonical
        /\ imports[id].canonical = CanonicalRows(id.contents)
        /\ id \in certified => ~Serious(id.contents)

\* No segment runs over a row that was excluded, or over a missing bar that is
\* not a documented weekend.  (A row off the grid takes the place of no bar.)
Unbroken(d) ==
    \A i \in 2..Len(d.times) :
        d.segments[i] = d.segments[i - 1] =>
            /\ \A e \in d.excluded : e % Grid = 0 => ~(d.times[i - 1] < e /\ e < d.times[i])
            /\ \/ d.times[i] = d.times[i - 1] + Grid
               \/ ExpectedWeekend(d.times[i - 1], d.times[i])

(* A registered derivative is the one on disk, it traces to an import that  *)
(* is still there, and none of its segments runs over a row that was        *)
(* excluded or over a missing bar that is not a documented weekend.         *)
DerivativeTraceable ==
    \A id \in DOMAIN lineage :
        /\ Has(imports, id) /\ Has(derivatives, id) /\ derivatives[id] = lineage[id]
        /\ Unbroken(lineage[id].bars)
=============================================================================
